---- MODULE Spec2Model ----
(***************************************************************************)
(* Model of the OverDraft caching proxy (src/server/app): the sliding      *)
(* window RateLimiter, the GoogleSheetsClient with its request coalescing  *)
(* and metadata cache, the SpreadsheetCache and the /api/sheets endpoint.  *)
(*                                                                         *)
(* Time is the value time.time() returns, in whole ticks: it never goes    *)
(* back, and any number of steps may read the same value.                  *)
(***************************************************************************)
EXTENDS Integers, Sequences, FiniteSets, TLC

\* ------------------------------------------------------------------ bounds
MaxTime == 3
\* RateLimiter(max_requests, window_seconds), scaled down
MaxRequests == 1
WindowSeconds == 2
\* number of concurrent acquire() callers of the limiter specification
NAcquirers == 2
\* total number of acquire() calls over a run
MaxGrants == 4
\* the largest max_requests a limiter is configured with
MaxConfigured == 2
\* the width the digest is cut to (16 hex digits in the code)
HashSpace == 32768

\* Settings.cache_ttl
CacheTTL == 1
\* GoogleSheetsClient.METADATA_TTL, scaled down
MetadataTTL == 2
\* number of concurrent callers of fetch_sheet, and of tasks they create over a run
NCallers == 2
MaxTasks == 2
\* number of concurrent handlers of GET /api/sheets, and of requests and stores over a run
NHandlers == 2
MaxServed == 3
\* number of threads calling the record_* methods of Metrics, and of calls over a run
NThreads == 2
MaxRecorded == 3
\* tables handed to compute_etag and rows handed to _parse_single_sheet: the largest
\* cell, the longest row and the largest number of rows
MaxCell == 1
MaxCols == 2
MaxTokens == 3
MaxCycles == 2
PollInterval == 1
InactivityTimeout == 1
\* the capacity of the two timestamp buffers (MAX_TIMESTAMPS, 100000 in the source)
MaxTimestamps == 2
\* the cycles of periodic_cleanup, and its sleep (3600 seconds, scaled)
MaxCleanups == 3
CleanupInterval == 1
\* The window of the requests-per-minute figures (60 seconds, scaled).
RpmWindow == 2
MaxRows == 2

VARIABLES
    now,          \* time.time()
    timestamps,   \* RateLimiter._timestamps
    lockQueue,    \* RateLimiter._lock: its holder (head) and FIFO waiters
    sleepUntil,   \* the holder is in asyncio.sleep until this time; NoSleep otherwise
    grants,       \* history: the time of every grant, in order
    apc,          \* limiter specification: where each caller of acquire() is, and
                  \* history: when it last called
    cache,        \* SpreadsheetCache._cache: spreadsheet_id -> CacheEntry
    lastOp,       \* history: the last cache operation, its arguments and its result
    lastSet,      \* history: per id, the entry of the last set_spreadsheet since clear()
    apiKey,       \* whether settings.google_api_key is set
    upstream,     \* the spreadsheets as Google holds them: id -> gid -> sheet
    metadata,     \* GoogleSheetsClient._metadata_cache: id -> (gid -> title, expires_at)
    pending,      \* GoogleSheetsClient._pending_requests: (id, gid) -> task
    tasks,        \* the asyncio tasks running _do_fetch_sheet, in creation order
    calls,        \* where each caller of fetch_sheet is
    returned,     \* history: what each caller's last fetch_sheet call returned
    handlers,     \* GET /api/sheets: where each handler is, and its request
    response,     \* history: the latest response sent, with its request
    metrics,      \* the Metrics singleton
    served,       \* history: the number of requests and direct stores so far
    content,      \* the content handed to compute_etag
    etags,        \* the fingerprints computed for it, in order
    rawRows,      \* the rows of a values response handed to _parse_single_sheet
    parsed,       \* the table _parse_single_sheet made of them
    rateLimit,    \* the value handed to _parse_rate_limit
    limits,       \* what _parse_rate_limit, or the constructor reading it, came to
    mlock,        \* Metrics._lock: the thread that holds it, 0 when free
    threads,      \* where each thread calling a record_* method is
    completed,    \* history: the record_* calls completed since the last reset, by kind
    snapshot,     \* history: the dictionary the last to_dict() returned
    poller,       \* the background poller: its task, last activity and subscriptions
    cycles,       \* history: the poll cycles begun, with what each found and fetched
    lifespan,     \* the application's lifespan and its periodic_cleanup task
    configs       \* the shared-config files on disk: name -> content

pureVars == <<content, etags, rawRows, parsed, rateLimit, limits>>
threadVars == <<mlock, threads, completed, snapshot>>
pollerVars == <<poller, cycles>>
lifeVars == <<lifespan, configs>>
limVars == <<timestamps, lockQueue, sleepUntil, grants>>
cacheVars == <<cache, lastOp, lastSet>>
\* What each specification leaves alone: the state of the other components.
limiterRest == <<cache, lastOp, lastSet, apiKey, upstream, metadata, pending, tasks, calls,
                 returned, handlers, response, metrics, served, pureVars, threadVars,
    pollerVars, lifeVars>>
cacheRest == <<timestamps, lockQueue, sleepUntil, grants, apc, apiKey, upstream, metadata,
               pending, tasks, calls, returned, handlers, response, metrics, served, pureVars,
               threadVars,
    pollerVars, lifeVars>>
clientRest == <<apc, cache, lastOp, lastSet, handlers, response, metrics, served, pureVars,
                threadVars,
    pollerVars, lifeVars>>
apiRest == <<apc, lastOp, lastSet, apiKey, upstream, pending, tasks, calls, returned, pureVars,
             threadVars,
    pollerVars, lifeVars>>
apiVars == <<handlers, response, metrics, served>>
clientVars == <<apiKey, upstream, metadata, pending, tasks, calls, returned>>
vars == <<now, timestamps, lockQueue, sleepUntil, grants, apc, cache, lastOp, lastSet, apiKey,
          upstream, metadata, pending, tasks, calls, returned, handlers, response, metrics,
          served, content, etags, rawRows, parsed, rateLimit, limits, mlock,
          threads, completed, snapshot, poller, cycles, lifespan, configs>>

NoSleep == 0 - 1

\* Spreadsheet ids and sheet ids (gid); a gid is a string of digits.
DocIds == {1, 2}
Gids == {0, 1}

\* The empty dict.
EmptyMap == [k \in {} |-> 0]
\* None, and a returned value.
None == <<>>
Some(v) == <<v>>

Acquirers == 1 .. NAcquirers
NotYet == 0 - 1
NoAcquire == [pc |-> "idle", called |-> NotYet]

\* ------------------------------------------------------------- RateLimiter

\* while self._timestamps and now - self._timestamps[0] > self.window_seconds: popleft()
RECURSIVE Evict(_, _)
Evict(ts, t) ==
    IF ts # <<>> /\ t - Head(ts) > WindowSeconds
    THEN Evict(Tail(ts), t)
    ELSE ts

\* wait_time = self._timestamps[0] + self.window_seconds - now
WaitTime(ts, t) == Head(ts) + WindowSeconds - t

\* (mutant) a limiter that never waits
MustSleepNever(ts, t) == FALSE

\* if len(self._timestamps) >= self.max_requests: ... if wait_time > 0: sleep
MustSleep(ts, t) == Len(ts) >= MaxRequests /\ WaitTime(ts, t) > 0

LimInit ==
    /\ timestamps = <<>>
    /\ lockQueue = <<>>
    /\ sleepUntil = NoSleep
    /\ grants = <<>>

\* `async with self._lock`: the caller takes the lock when it is free and queues
\* behind the holder otherwise (asyncio.Lock wakes its waiters first come first served).
AcquireEnter(u) ==
    /\ lockQueue' = Append(lockQueue, u)
    /\ UNCHANGED <<timestamps, sleepUntil, grants>>

HoldsLock(u) == lockQueue # <<>> /\ Head(lockQueue) = u

\* The step of acquire() that ends in the grant: self._timestamps.append(time.time())
\* and the release of the lock.
Grant(ts) ==
    /\ timestamps' = Append(ts, now)
    /\ grants' = Append(grants, now)
    /\ lockQueue' = Tail(lockQueue)
    /\ sleepUntil' = NoSleep

\* Whether the holder's next step is the grant.
GrantsNow(u) ==
    /\ HoldsLock(u)
    /\ IF sleepUntil = NoSleep
       THEN ~MustSleep(Evict(timestamps, now), now)
       ELSE now >= sleepUntil

\* Under the lock, up to the sleep or the grant (lines 46-63).
AcquireCheck(u) ==
    /\ HoldsLock(u)
    /\ sleepUntil = NoSleep
    /\ LET ts == Evict(timestamps, now) IN
       IF MustSleep(ts, now)
       THEN /\ timestamps' = ts
            /\ sleepUntil' = now + WaitTime(ts, now)
            /\ UNCHANGED <<lockQueue, grants>>
       ELSE Grant(ts)

\* asyncio.sleep(wait_time) is over: evict once more, then append (lines 57-63).
AcquireWake(u) ==
    /\ HoldsLock(u)
    /\ sleepUntil # NoSleep
    /\ now >= sleepUntil
    /\ Grant(Evict(timestamps, now))

AcquireStep(u) == AcquireCheck(u) \/ AcquireWake(u)

\* ------------------------------------------------------- fetched content
\* Cell values and titles are strings, written as numbers: 0 is the empty string.

\* Sheets as the cache holds them: {"title", "headers", "data"}.
SheetPlayers == [title |-> 1, headers |-> <<1>>, data |-> <<<<2>>>>]
SheetEdited == [title |-> 1, headers |-> <<1>>, data |-> <<<<3>>>>]
SheetRenamed == [title |-> 2, headers |-> <<1>>, data |-> <<<<2>>>>]
SheetBlank == [title |-> 1, headers |-> <<>>, data |-> <<>>]

\* The "sheets" dicts (gid -> sheet) a spreadsheet is stored with.
SheetsPool ==
    { EmptyMap,
      0 :> SheetPlayers,
      0 :> SheetRenamed,
      0 :> SheetPlayers @@ 1 :> SheetEdited,
      0 :> SheetPlayers @@ 1 :> SheetBlank }

\* {"spreadsheetId": id, "sheets": {...}}
DocData(id, sheets) == [spreadsheetId |-> id, sheets |-> sheets]

\* -------------------------------------------------------------- compute_etag
RECURSIVE Flatten(_)
Flatten(ss) == IF ss = <<>> THEN <<>> ELSE Head(ss) \o Flatten(Tail(ss))

\* (mutant) a serialisation that writes a row as the number of its cells
JsonCellsCounted(row) == <<91, Len(row), 93>>

\* The characters of a JSON list of strings: [ "c", "c" ]
JsonCells(row) == <<91>> \o Flatten([i \in 1 .. Len(row) |-> <<34, row[i], 34, 44>>]) \o <<93>>
\* ... of a list of such lists
JsonRows(rows) == <<91>> \o Flatten([i \in 1 .. Len(rows) |-> JsonCells(rows[i]) \o <<44>>]) \o <<93>>

\* The keys of a dict in sort_keys order (the gids are single digits).
RECURSIVE SortedKeys(_)
SortedKeys(ks) ==
    IF ks = {} THEN <<>>
    ELSE LET m == CHOOSE k \in ks : \A j \in ks : k <= j
         IN <<m>> \o SortedKeys(ks \ {m})

\* sort_keys=True: "data" < "headers" < "title" and "sheets" < "spreadsheetId".
KeyData == <<100>>
KeyHeaders == <<104>>
KeyTitle == <<116>>
KeySheets == <<115, 104>>
KeySpreadsheetId == <<115, 112>>

JsonSheet(sh) ==
    <<123>> \o KeyData \o JsonRows(sh.data) \o KeyHeaders \o JsonCells(sh.headers)
        \o (IF "title" \in DOMAIN sh THEN KeyTitle \o <<34, sh.title, 34>> ELSE <<>>)
        \o <<125>>

JsonDoc(d) ==
    LET gs == SortedKeys(DOMAIN d.sheets) IN
    <<123>> \o KeySheets \o <<123>>
        \o Flatten([i \in 1 .. Len(gs) |-> <<34, gs[i], 34>> \o JsonSheet(d.sheets[gs[i]])])
        \o <<125>> \o KeySpreadsheetId \o <<34, d.spreadsheetId, 34>> \o <<125>>

\* json.dumps(data, sort_keys=True, ensure_ascii=False)
JsonDumps(data) == IF "sheets" \in DOMAIN data THEN JsonDoc(data) ELSE JsonSheet(data)

\* hashlib.sha256(...).hexdigest()[:16]: a digest of the characters, cut to a fixed
\* width. DigestPair gives <<the digest of cs[lo..hi], 31^(hi - lo + 1)>>, both
\* reduced to the width.
RECURSIVE DigestPair(_, _, _)
DigestPair(cs, lo, hi) ==
    IF lo = hi THEN <<cs[lo] % HashSpace, 31 % HashSpace>>
    ELSE LET mid == (lo + hi) \div 2
             l == DigestPair(cs, lo, mid)
             r == DigestPair(cs, mid + 1, hi)
         IN <<(l[1] * r[2] + r[1]) % HashSpace, (l[2] * r[2]) % HashSpace>>

Digest(cs) ==
    IF cs = <<>> THEN 7 % HashSpace
    ELSE LET p == DigestPair(cs, 1, Len(cs)) IN (7 * p[2] + p[1]) % HashSpace

\* f'"{hash_value}"'
ComputeEtag(data) == <<34, Digest(JsonDumps(data)), 34>>

\* -------------------------------------------------------- SpreadsheetCache
\* (mutant) an entry that counts as expired from its expiry time on
IsExpiredFromExpiry(entry, t) == t >= entry.expires_at

\* CacheEntry.is_expired: time.time() > self.expires_at
IsExpired(entry, t) == t > entry.expires_at

Remove(map, k) == [j \in DOMAIN map \ {k} |-> map[j]]
Put(map, k, v) == [j \in DOMAIN map \cup {k} |-> IF j = k THEN v ELSE map[j]]

\* (mutant) a get that deletes nothing
GetSpreadsheetMapLeave(c, id, t) == c

\* get_spreadsheet: the map it leaves and what it returns.
GetSpreadsheetMap(c, id, t) ==
    IF id \in DOMAIN c /\ IsExpired(c[id], t) THEN Remove(c, id) ELSE c

GetSpreadsheet(c, id, t) ==
    IF id \notin DOMAIN c THEN None
    ELSE IF IsExpired(c[id], t) THEN None
    ELSE Some(c[id])

\* set_spreadsheet: the entry it creates and the map it leaves.
NewEntry(data, t) ==
    [data |-> data, etag |-> ComputeEtag(data), expires_at |-> t + CacheTTL]

\* (mutant) a set that keeps the entry the id already has
SetSpreadsheetMapKeep(c, id, data, t) ==
    IF id \in DOMAIN c THEN c ELSE Put(c, id, NewEntry(data, t))

SetSpreadsheetMap(c, id, data, t) == Put(c, id, NewEntry(data, t))

\* (mutant) a get_sheet that hands out the etag of the whole document
GetSheetDocEtag(c, id, gid, t) ==
    LET entry == GetSpreadsheet(c, id, t) IN
    IF entry = None THEN None
    ELSE LET sheets == entry[1].data.sheets IN
         IF gid \notin DOMAIN sheets THEN None
         ELSE Some([headers |-> sheets[gid].headers, data |-> sheets[gid].data,
                    etag |-> entry[1].etag])

\* get_sheet: a SheetCacheEntry with the sheet's own etag, or None.
GetSheet(c, id, gid, t) ==
    LET entry == GetSpreadsheet(c, id, t) IN
    IF entry = None THEN None
    ELSE LET sheets == entry[1].data.sheets IN
         IF gid \notin DOMAIN sheets THEN None
         ELSE LET sheet == sheets[gid]
                  sheet_data == [headers |-> sheet.headers, data |-> sheet.data]
              IN Some([headers |-> sheet.headers, data |-> sheet.data,
                       etag |-> ComputeEtag(sheet_data)])

\* (mutant) a sweep that also drops the entries that expire just now
CleanupExpiredMapDue(c, t) ==
    [k \in {j \in DOMAIN c : ~(c[j].expires_at <= t)} |-> c[k]]

\* cleanup_expired: drops the entries with entry.expires_at < now
CleanupExpiredMap(c, t) ==
    [k \in {j \in DOMAIN c : ~(c[j].expires_at < t)} |-> c[k]]

NoOp == [op |-> "none", id |-> 0, gid |-> 0, time |-> 0, data |-> EmptyMap,
         result |-> None, before |-> EmptyMap]

CacheInit ==
    /\ cache = EmptyMap
    /\ lastOp = NoOp
    /\ lastSet = EmptyMap

\* ------------------------------------------------------ the upstream API
\* A sheet as Google holds it: its title and its rows of cells, ragged.
UpstreamSmall == 0 :> [title |-> 1, rows |-> <<<<1>>, <<2>>>>]
UpstreamLarge ==
    0 :> [title |-> 1, rows |-> <<<<1>>, <<3>>>>] @@ 1 :> [title |-> 2, rows |-> <<<<1, 2>>, <<3>>>>]
UpstreamPool == {UpstreamSmall, UpstreamLarge}

\* What a GET can end in: httpx.RequestError, or a response with a status code.
Outcomes == {"RequestError", "200", "400", "404", "403", "429", "500"}

\* ------------------------------------------------------ GoogleSheetsClient
Keys == DocIds \X Gids
Callers == 1 .. NCallers

Ok(v) == [ok |-> TRUE, error |-> "", value |-> Some(v)]
Err(type) == [ok |-> FALSE, error |-> type, value |-> None]

\* (mutant) a mapping that takes upstream's 429 for any other failure
ErrorOfUnthrottled(outcome) ==
    CASE outcome = "RequestError" -> "NETWORK"
      [] outcome = "404" -> "NOT_FOUND"
      [] outcome = "403" -> "NOT_PUBLISHED"
      [] OTHER -> "API_ERROR"

\* The typed error of a failed GET (lines 229-244 and 279-289).
ErrorOf(outcome) ==
    CASE outcome = "RequestError" -> "NETWORK"
      [] outcome = "404" -> "NOT_FOUND"
      [] outcome = "403" -> "NOT_PUBLISHED"
      [] outcome = "429" -> "RATE_LIMITED"
      [] OTHER -> "API_ERROR"

\* _get_cached_metadata: the dict it leaves and the mapping it returns.
CachedMetadataMap(m, id, t) ==
    IF id \in DOMAIN m /\ t > m[id].expires_at THEN Remove(m, id) ELSE m

\* (mutant) a lookup that never finds the mapping
CachedMetadataGone(m, id, t) == None

CachedMetadata(m, id, t) ==
    IF id \notin DOMAIN m THEN None
    ELSE IF t > m[id].expires_at THEN None
    ELSE Some(m[id].mapping)

\* _cache_metadata
CacheMetadata(m, id, mapping, t) ==
    Put(m, id, [mapping |-> mapping, expires_at |-> t + MetadataTTL])

\* The gid -> title mapping built from the metadata response (lines 294-299).
MappingOf(doc) == [g \in DOMAIN doc |-> doc[g].title]

\* _extract_rows: the formattedValue of every cell, "" for a cell that has none
NoValue == 0 - 1
ExtractRows(row_data) ==
    [i \in 1 .. Len(row_data) |->
        [j \in 1 .. Len(row_data[i]) |->
            IF row_data[i][j] = NoValue THEN 0 ELSE row_data[i][j]]]

\* (mutant) a normalisation that pads nothing
NormalizeRowAsIs(row, max_cols) == row

\* normalize_row
NormalizeRow(row, max_cols) ==
    IF Len(row) < max_cols
    THEN row \o [i \in 1 .. (max_cols - Len(row)) |-> 0]
    ELSE row

Max(S) == CHOOSE x \in S : \A y \in S : y <= x

\* _parse_single_sheet, from the rows _extract_rows gives
ParseSingleSheet(id, gid, title, rows) ==
    IF rows = <<>>
    THEN [spreadsheetId |-> id, gid |-> gid, title |-> title, headers |-> <<>>, data |-> <<>>]
    ELSE LET headers == rows[1]
             data_rows == Tail(rows)
             max_cols == Max({Len(headers)} \cup {Len(data_rows[i]) : i \in 1 .. Len(data_rows)})
         IN [spreadsheetId |-> id, gid |-> gid, title |-> title,
             headers |-> NormalizeRow(headers, max_cols),
             data |-> [i \in 1 .. Len(data_rows) |-> NormalizeRow(data_rows[i], max_cols)]]

\* (mutant) a task that fetches the first sheet whatever the gid asked for
NewTaskFirstSheet(key, c) ==
    [key |-> <<key[1], 0>>, pc |-> "start", name |-> 0, result |-> None, waiters |-> <<c>>,
     nCalls |-> 0]

\* A task running _do_fetch_sheet(id, gid).
NewTask(key, c) ==
    [key |-> key, pc |-> "start", name |-> 0, result |-> None, waiters |-> <<c>>,
     nCalls |-> 0]

NoCall == [pc |-> "idle", key |-> <<0, 0>>, task |-> 0, creator |-> FALSE]

ClientInit ==
    /\ metadata = EmptyMap
    /\ pending = EmptyMap
    /\ tasks = <<>>
    /\ calls = [c \in Callers |-> NoCall]
    /\ returned = [c \in Callers |-> None]

Running(t) == tasks[t].pc # "done"

InFlightNever(key) == FALSE

\* if key in self._pending_requests
InFlight(key) == key \in DOMAIN pending

\* What `await task` gives the caller that created the task (line 188) and the
\* callers that found it in flight (line 181): the task's value, or its error raised.
CreatorOutcome(t) == tasks[t].result[1]
JoinerOutcomeLost(t) == Err("CANCELLED")
JoinerOutcome(t) == tasks[t].result[1]

Return(c, t, creator, outcome) ==
    returned' = [returned EXCEPT ![c] =
                    Some([task |-> t, creator |-> creator, outcome |-> outcome])]

\* fetch_sheet(id, gid), up to its first suspension (lines 169-188)
FetchSheet(c, key) ==
    /\ calls[c].pc = "idle"
    /\ IF ~apiKey
       THEN /\ Return(c, 0, FALSE, Err("CONFIG_ERROR"))
            /\ UNCHANGED <<pending, tasks, calls>>
       ELSE IF InFlight(key)
       THEN LET t == pending[key] IN
            IF Running(t)
            THEN /\ calls' = [calls EXCEPT ![c] =
                                 [pc |-> "await", key |-> key, task |-> t, creator |-> FALSE]]
                 /\ tasks' = [tasks EXCEPT ![t].waiters = Append(@, c)]
                 /\ returned' = [returned EXCEPT ![c] = None]
                 /\ UNCHANGED pending
            ELSE \* awaiting a task that is done does not suspend
                 /\ Return(c, t, FALSE, JoinerOutcome(t))
                 /\ UNCHANGED <<pending, tasks, calls>>
       ELSE /\ Len(tasks) < MaxTasks
            /\ tasks' = Append(tasks, NewTask(key, c))
            /\ pending' = Put(pending, key, Len(tasks) + 1)
            /\ calls' = [calls EXCEPT ![c] =
                            [pc |-> "await", key |-> key, task |-> Len(tasks) + 1,
                             creator |-> TRUE]]
            /\ returned' = [returned EXCEPT ![c] = None]
    /\ UNCHANGED <<now, limVars, apiKey, upstream, metadata>>

\* (mutant) a creator that leaves its registration behind
UnregisterNever(registry, key) == registry

\* finally: self._pending_requests.pop(key, None)
Unregister(registry, key) == Remove(registry, key)

\* The task is done and the event loop resumes its waiters, in the order they began
\* to wait. The creator runs its finally: self._pending_requests.pop(key, None).
Resume(c) ==
    LET t == calls[c].task IN
    /\ calls[c].pc = "await"
    /\ ~Running(t)
    /\ Head(tasks[t].waiters) = c
    /\ tasks' = [tasks EXCEPT ![t].waiters = Tail(@)]
    /\ calls' = [calls EXCEPT ![c] = NoCall]
    /\ IF calls[c].creator
       THEN /\ pending' = Unregister(pending, calls[c].key)
            /\ Return(c, t, TRUE, CreatorOutcome(t))
       ELSE /\ UNCHANGED pending
            /\ Return(c, t, FALSE, JoinerOutcome(t))
    /\ UNCHANGED <<now, limVars, apiKey, upstream, metadata>>

Finish(t, result) == [tasks[t] EXCEPT !.pc = "done", !.result = Some(result)]

\* _get_sheet_name with the mapping in hand: the task goes on to acquire() for the
\* data, or raises NOT_FOUND when the mapping has no such gid (lines 206-215).
WithMapping(t, mapping) ==
    LET gid == tasks[t].key[2] IN
    IF gid \in DOMAIN mapping
    THEN /\ tasks' = [tasks EXCEPT ![t].pc = "acq_data", ![t].name = mapping[gid]]
         /\ AcquireEnter(t)
    ELSE /\ tasks' = [tasks EXCEPT ![t] = Finish(t, Err("NOT_FOUND"))]
         /\ UNCHANGED limVars

MetadataMissUngranted(t) ==
    /\ tasks' = [tasks EXCEPT ![t].pc = "get_meta", ![t].nCalls = @ + 1]
    /\ UNCHANGED limVars

\* _get_sheet_name on a metadata miss: acquire() before the metadata GET (line 267)
MetadataMiss(t) ==
    /\ tasks' = [tasks EXCEPT ![t].pc = "acq_meta"]
    /\ AcquireEnter(t)

\* The task's first step: _get_sheet_name looks the metadata up (lines 203-204, 261-267).
TaskStart(t) ==
    LET id == tasks[t].key[1]
        cached == CachedMetadata(metadata, id, now)
    IN
    /\ tasks[t].pc = "start"
    /\ metadata' = CachedMetadataMap(metadata, id, now)
    /\ IF cached # None THEN WithMapping(t, cached[1]) ELSE MetadataMiss(t)
    /\ UNCHANGED <<now, apiKey, upstream, pending, calls, returned>>

\* acquire() on behalf of the task; with the grant the GET is sent.
TaskAcquire(t) ==
    /\ tasks[t].pc \in {"acq_meta", "acq_data"}
    /\ AcquireStep(t)
    /\ tasks' = IF GrantsNow(t)
                THEN [tasks EXCEPT ![t].pc = IF @ = "acq_meta" THEN "get_meta" ELSE "get_data",
                                   ![t].nCalls = @ + 1]
                ELSE tasks
    /\ UNCHANGED <<now, apiKey, upstream, metadata, pending, calls, returned>>

\* The metadata GET ends (lines 277-303).
TaskMetadataResponse(t, outcome) ==
    LET id == tasks[t].key[1]
        mapping == MappingOf(upstream[id])
    IN
    /\ tasks[t].pc = "get_meta"
    /\ IF outcome = "200"
       THEN /\ metadata' = CacheMetadata(metadata, id, mapping, now)
            /\ WithMapping(t, mapping)
       ELSE /\ tasks' = [tasks EXCEPT ![t] = Finish(t, Err(ErrorOf(outcome)))]
            /\ UNCHANGED <<metadata, limVars>>
    /\ UNCHANGED <<now, apiKey, upstream, pending, calls, returned>>

\* The sheets of a spreadsheet that `ranges` = title selects.
Titled(doc, title) == {g \in DOMAIN doc : doc[g].title = title}

\* The data GET ends (lines 227-247). Upstream has no 200 for a range that names no
\* sheet of the spreadsheet.
TaskDataResponse(t, outcome) ==
    LET id == tasks[t].key[1]
        gid == tasks[t].key[2]
        hit == Titled(upstream[id], tasks[t].name)
    IN
    /\ tasks[t].pc = "get_data"
    /\ outcome = "200" => hit # {}
    /\ tasks' = [tasks EXCEPT ![t] =
          IF outcome # "200" THEN Finish(t, Err(ErrorOf(outcome)))
          ELSE Finish(t, Ok(ParseSingleSheet(id, gid, tasks[t].name,
                                             upstream[id][CHOOSE g \in hit : TRUE].rows)))]
    /\ UNCHANGED <<now, limVars, apiKey, upstream, metadata, pending, calls, returned>>

\* Somebody edits the spreadsheet.
UpstreamEdit(id, doc) ==
    /\ upstream[id] # doc
    /\ upstream' = [upstream EXCEPT ![id] = doc]
    /\ UNCHANGED <<now, limVars, apiKey, metadata, pending, tasks, calls, returned>>

\* ------------------------------------------------------------ Metrics
MetricsInit ==
    [google_api_requests |-> 0, cache_hits |-> 0, cache_misses |-> 0, errors |-> 0,
     per_sheet |-> EmptyMap, request_times |-> <<>>, google_request_times |-> <<>>]

\* (mutant) a buffer without capacity
DequeAppendAll(d, x) == Append(d, x)

\* deque(maxlen=MAX_TIMESTAMPS).append: a full deque drops its oldest entry
DequeAppend(d, x) ==
    IF Len(d) >= MaxTimestamps
    THEN SubSeq(d, Len(d) - MaxTimestamps + 2, Len(d)) \o <<x>>
    ELSE Append(d, x)

RecordGoogleRequest(m, id, t) ==
    [m EXCEPT !.google_api_requests = @ + 1,
              !.google_request_times = DequeAppend(@, t),
              !.per_sheet = Put(@, id, IF id \in DOMAIN @ THEN @[id] + 1 ELSE 1)]

\* (mutant) a hit that also counts as a call to Google
RecordCacheHitAsCall(m, t) ==
    [m EXCEPT !.cache_hits = @ + 1, !.google_api_requests = @ + 1,
              !.request_times = DequeAppend(@, t)]

RecordCacheHit(m, t) ==
    [m EXCEPT !.cache_hits = @ + 1, !.request_times = DequeAppend(@, t)]

RecordCacheMiss(m, t) ==
    [m EXCEPT !.cache_misses = @ + 1, !.request_times = DequeAppend(@, t)]

RecordError(m) == [m EXCEPT !.errors = @ + 1]

\* (mutant) a count of the whole buffer
CountInWindowAll(times, window_seconds, t) == Len(times)

\* _count_in_window: cutoff = time() - window_seconds; from the newest to the
\* oldest, count while t > cutoff and stop at the first that is not
RECURSIVE CountInWindow(_, _, _)
CountInWindow(times, window_seconds, t) ==
    IF times = <<>> THEN 0
    ELSE IF times[Len(times)] > t - window_seconds
         THEN 1 + CountInWindow(SubSeq(times, 1, Len(times) - 1),
                                window_seconds, t)
         ELSE 0

\* ------------------------------------------------------- GET /api/sheets
Handlers == 1 .. NHandlers

\* escape_field: a field with a quote, a comma or a line break goes between quotes,
\* its quotes doubled. A field is one character here; 0 is the empty string.
EscapeField(c) ==
    IF c = 0 THEN <<>>
    ELSE IF c = 34 THEN <<34, 34, 34, 34>>
    ELSE IF c \in {44, 10, 13} THEN <<34, c, 34>>
    ELSE <<c>>

\* sep.join(parts)
RECURSIVE Join(_, _)
Join(sep, parts) ==
    IF parts = <<>> THEN <<>>
    ELSE IF Len(parts) = 1 THEN parts[1]
    ELSE parts[1] \o sep \o Join(sep, Tail(parts))

CsvLine(row) == Join(<<44>>, [i \in 1 .. Len(row) |-> EscapeField(row[i])])

\* to_csv: the header line, then a line per row
ToCsv(headers, data) ==
    Join(<<10>>, <<CsvLine(headers)>> \o [i \in 1 .. Len(data) |-> CsvLine(data[i])])

\* (mutant) a conditional request is answered 304 whatever its token
EtagMatchesAny(if_none_match, etag) == if_none_match # None

\* (mutant) a comparison that never matches
EtagMatchesNever(if_none_match, etag) == FALSE

\* if if_none_match and if_none_match == etag
EtagMatches(if_none_match, etag) == if_none_match # None /\ if_none_match[1] = etag

\* The 304 or the 200 that ends both paths (lines 129-148 and 190-202).
TableResponse(if_none_match, headers, data, etag) ==
    IF EtagMatches(if_none_match, etag)
    THEN [status |-> 304, body |-> None, etag |-> Some(etag)]
    ELSE [status |-> 200, body |-> Some(ToCsv(headers, data)), etag |-> Some(etag)]

\* (mutant) an error response that carries a table
HttpErrorWithBody(code) == [status |-> code, body |-> Some(<<>>), etag |-> None]

\* raise HTTPException(status_code=..., detail=...)
HttpError(code) == [status |-> code, body |-> None, etag |-> None]

\* (mutant) an endpoint that answers 502 to every GoogleSheetsError
StatusOfFlat(error_type) == 502

\* The status the endpoint turns a GoogleSheetsError into (lines 157-166).
StatusOf(error_type) ==
    CASE error_type = "NOT_FOUND" -> 404
      [] error_type = "NOT_PUBLISHED" -> 403
      [] error_type = "CONFIG_ERROR" -> 500
      [] OTHER -> 502

\* What fetch_spreadsheet returns: the titles, and no headers and no rows.
SpreadsheetOf(id, mapping) ==
    DocData(id, [g \in DOMAIN mapping |-> [title |-> mapping[g], headers |-> <<>>, data |-> <<>>]])

\* get_sheet_from_spreadsheet
GetSheetFromSpreadsheet(spreadsheet_data, gid) ==
    IF gid \notin DOMAIN spreadsheet_data.sheets THEN None
    ELSE LET sheet == spreadsheet_data.sheets[gid] IN
         Some([spreadsheetId |-> spreadsheet_data.spreadsheetId, gid |-> gid,
               title |-> sheet.title, headers |-> sheet.headers, data |-> sheet.data])

\* The response after fetch_spreadsheet has returned (lines 171-202).
FetchedResponse(spreadsheet_data, gid, if_none_match) ==
    LET sheet == GetSheetFromSpreadsheet(spreadsheet_data, gid) IN
    IF sheet = None THEN HttpError(404)
    ELSE TableResponse(if_none_match, sheet[1].headers, sheet[1].data,
                       ComputeEtag([headers |-> sheet[1].headers, data |-> sheet[1].data]))

NoRequest == [pc |-> "idle", id |-> 0, gid |-> 0, if_none_match |-> None]

ApiInit ==
    /\ handlers = [h \in Handlers |-> NoRequest]
    /\ response = None
    /\ metrics = MetricsInit
    /\ served = 0

\* The response, with the request it answers, the path taken and, on a hit, the
\* SheetCacheEntry the cache gave.
Respond(h, req, path, sheet, resp) ==
    response' =
        Some([handler |-> h, id |-> req.id, gid |-> req.gid,
              if_none_match |-> req.if_none_match, path |-> path, sheet |-> sheet,
              suspended |-> handlers[h].pc # "idle",
              status |-> resp.status, body |-> resp.body, etag |-> resp.etag])

\* fetch_spreadsheet has returned for the mapping: record_google_request,
\* cache.set_spreadsheet and the response (lines 154-155, 168-202).
Fetched(h, req, mapping, m, c) ==
    LET spreadsheet_data == SpreadsheetOf(req.id, mapping) IN
    /\ metrics' = RecordGoogleRequest(m, req.id, now)
    /\ cache' = SetSpreadsheetMap(c, req.id, spreadsheet_data, now)
    /\ Respond(h, req, "miss", None, FetchedResponse(spreadsheet_data, req.gid, req.if_none_match))
    /\ handlers' = [handlers EXCEPT ![h] = NoRequest]

\* The handler, from the request to its response or to its first suspension: the
\* hit path (lines 122-148), or a miss and fetch_spreadsheet up to acquire()
\* (lines 150-154, 413-423, 261-267).
ApiRequest(h, id, gid, if_none_match) ==
    LET req == [pc |-> "acq_meta", id |-> id, gid |-> gid, if_none_match |-> if_none_match]
        cached_sheet == GetSheet(cache, id, gid, now)
        looked == GetSpreadsheetMap(cache, id, now)
        cached == CachedMetadata(metadata, id, now)
    IN
    /\ handlers[h].pc = "idle"
    /\ served < MaxServed
    /\ served' = served + 1
    /\ metadata' = IF cached_sheet # None THEN metadata ELSE CachedMetadataMap(metadata, id, now)
    /\ IF cached_sheet # None
       THEN /\ metrics' = RecordCacheHit(metrics, now)
            /\ cache' = looked
            /\ Respond(h, req, "hit", cached_sheet,
                       TableResponse(if_none_match, cached_sheet[1].headers,
                                     cached_sheet[1].data, cached_sheet[1].etag))
            /\ UNCHANGED <<handlers, limVars>>
       ELSE IF cached # None
       THEN /\ Fetched(h, req, cached[1], RecordCacheMiss(metrics, now), looked)
            /\ UNCHANGED limVars
       ELSE /\ metrics' = RecordCacheMiss(metrics, now)
            /\ cache' = looked
            /\ handlers' = [handlers EXCEPT ![h] = req]
            /\ UNCHANGED response
            /\ AcquireEnter(h)
    /\ UNCHANGED now

\* acquire() on behalf of the handler; with the grant the metadata GET is sent.
ApiAcquire(h) ==
    /\ handlers[h].pc = "acq_meta"
    /\ AcquireStep(h)
    /\ handlers' = IF GrantsNow(h) THEN [handlers EXCEPT ![h].pc = "get_meta"] ELSE handlers
    /\ UNCHANGED <<now, cache, metadata, response, metrics, served>>

\* The metadata GET ends: an error goes out as an HTTPException (lines 156-166), a
\* mapping is cached and fetch_spreadsheet returns (lines 291-301, 424-429).
ApiMetadataResponse(h, outcome) ==
    LET req == handlers[h]
        mapping == MappingOf(upstream[req.id])
    IN
    /\ req.pc = "get_meta"
    /\ IF outcome = "200"
       THEN /\ metadata' = CacheMetadata(metadata, req.id, mapping, now)
            /\ Fetched(h, req, mapping, metrics, cache)
       ELSE /\ metrics' = RecordError(metrics)
            /\ Respond(h, req, "miss", None, HttpError(StatusOf(ErrorOf(outcome))))
            /\ handlers' = [handlers EXCEPT ![h] = NoRequest]
            /\ UNCHANGED <<cache, metadata>>
    /\ UNCHANGED <<now, limVars, served>>

\* Another part of the process stores a spreadsheet through get_cache().
ApiStore(id, sheets) ==
    /\ served < MaxServed
    /\ served' = served + 1
    /\ cache' = SetSpreadsheetMap(cache, id, DocData(id, sheets), now)
    /\ UNCHANGED <<now, limVars, metadata, handlers, response, metrics>>

\* ------------------------------------------------- Metrics under threads
\* The record_* methods, to_dict and reset, as the threads of the server call them.
\* `x += 1` is a load and a store; every method body runs inside `with self._lock`.
Kinds == {"google", "hit", "miss", "error"}
Threads == 1 .. NThreads

NoCounts == [k \in Kinds |-> 0]
IdleThread == [pc |-> "idle", kind |-> "none", id |-> 0, reg |-> 0]

ThreadsInit ==
    /\ mlock = 0
    /\ threads = [th \in Threads |-> IdleThread]
    /\ completed = NoCounts
    /\ snapshot = None

\* the attribute each record_* method counts in
CounterOf(m, kind) ==
    IF kind = "google" THEN m.google_api_requests
    ELSE IF kind = "hit" THEN m.cache_hits
    ELSE IF kind = "miss" THEN m.cache_misses
    ELSE m.errors

\* the method body with the loaded value of the counter: the store of `+= 1`
\* writes the loaded value plus one
Recorded(m, kind, id, reg, t) ==
    IF kind = "google"
    THEN [RecordGoogleRequest(m, id, t) EXCEPT !.google_api_requests = reg + 1]
    ELSE IF kind = "hit" THEN [RecordCacheHit(m, t) EXCEPT !.cache_hits = reg + 1]
    ELSE IF kind = "miss" THEN [RecordCacheMiss(m, t) EXCEPT !.cache_misses = reg + 1]
    ELSE [RecordError(m) EXCEPT !.errors = reg + 1]

\* calls of record_* begun and not yet returned, and all calls begun since the reset
Busy == {th \in Threads : threads[th].kind \in Kinds}
Begun ==
    completed["google"] + completed["hit"] + completed["miss"] + completed["error"]
        + Cardinality(Busy)

\* (mutant) a lock that excludes nobody
LockFreeAlways(th) == TRUE

\* Lock.acquire: the lock is free
LockFree(th) == mlock = 0

\* a thread calls record_google_request(id), record_cache_hit(), record_cache_miss()
\* or record_error()
ThreadRecord(th, kind, id) ==
    /\ threads[th].pc = "idle"
    /\ Begun < MaxRecorded
    /\ threads' = [threads EXCEPT ![th] = [pc |-> "lock", kind |-> kind, id |-> id, reg |-> 0]]
    /\ UNCHANGED <<now, metrics, mlock, completed, snapshot>>

\* a thread calls to_dict() or reset()
ThreadCall(th, method) ==
    /\ threads[th].pc = "idle"
    /\ threads' = [threads EXCEPT ![th] = [pc |-> "lock", kind |-> method, id |-> 0, reg |-> 0]]
    /\ UNCHANGED <<now, metrics, mlock, completed, snapshot>>

\* with self._lock: entry
ThreadLock(th) ==
    /\ threads[th].pc = "lock"
    /\ LockFree(th)
    /\ mlock' = th
    /\ threads' = [threads EXCEPT ![th].pc =
                      IF threads[th].kind \in Kinds THEN "load"
                      ELSE IF threads[th].kind = "to_dict" THEN "total"
                      ELSE "clear"]
    /\ UNCHANGED <<now, metrics, completed, snapshot>>

\* self.<counter> += 1: the load
ThreadLoad(th) ==
    /\ threads[th].pc = "load"
    /\ threads' = [threads EXCEPT ![th].reg = CounterOf(metrics, threads[th].kind),
                                  ![th].pc = "store"]
    /\ UNCHANGED <<now, metrics, mlock, completed, snapshot>>

\* self.<counter> += 1: the store, and the rest of the method body
ThreadStore(th) ==
    /\ threads[th].pc = "store"
    /\ metrics' = Recorded(metrics, threads[th].kind, threads[th].id, threads[th].reg, now)
    /\ threads' = [threads EXCEPT ![th].pc = "unlock"]
    /\ UNCHANGED <<now, mlock, completed, snapshot>>

\* to_dict: total_requests = self.cache_hits + self.cache_misses
ThreadTotal(th) ==
    /\ threads[th].pc = "total"
    /\ threads' = [threads EXCEPT ![th].reg = metrics.cache_hits + metrics.cache_misses,
                                  ![th].pc = "export"]
    /\ UNCHANGED <<now, metrics, mlock, completed, snapshot>>

\* to_dict: the returned dictionary
ThreadExport(th) ==
    /\ threads[th].pc = "export"
    /\ snapshot' = Some([google_api_requests |-> metrics.google_api_requests,
                         cache_hits |-> metrics.cache_hits,
                         cache_misses |-> metrics.cache_misses,
                         total_requests |-> threads[th].reg,
                         errors |-> metrics.errors,
                         server_rpm |-> CountInWindow(metrics.request_times, RpmWindow, now),
                         google_rpm |->
                             CountInWindow(metrics.google_request_times, RpmWindow, now),
                         requests_per_sheet |-> metrics.per_sheet])
    /\ threads' = [threads EXCEPT ![th].pc = "unlock"]
    /\ UNCHANGED <<now, metrics, mlock, completed>>

\* reset: every counter back to zero, the buffers and per_sheet emptied
ThreadClear(th) ==
    /\ threads[th].pc = "clear"
    /\ metrics' = MetricsInit
    /\ completed' = NoCounts
    /\ threads' = [threads EXCEPT ![th].pc = "unlock"]
    /\ UNCHANGED <<now, mlock, snapshot>>

\* with self._lock: exit, and the method returns
ThreadUnlock(th) ==
    /\ threads[th].pc = "unlock"
    /\ mlock' = 0
    /\ completed' = IF threads[th].kind \in Kinds
                    THEN [completed EXCEPT ![threads[th].kind] = @ + 1]
                    ELSE completed
    /\ threads' = [threads EXCEPT ![th] = IdleThread]
    /\ UNCHANGED <<now, metrics, snapshot>>

\* ------------------------------------------------------ _parse_rate_limit
\* A setting is a string, written as a sequence of tokens: digits, a sign, the
\* slash, and words; or it is not a string at all (None).
Digits == {"0", "5"}
Words == {"second", "minute", "hour", "day", "MINUTE"}
TokenSet == Digits \cup Words \cup {"-", "/"}
NotAString == <<"None">>

DigitValue(d) == IF d = "5" THEN 5 ELSE 0

\* str.split("/"): the pieces between the slashes
RECURSIVE Split(_)
Split(str) ==
    IF \A i \in 1 .. Len(str) : str[i] # "/"
    THEN <<str>>
    ELSE LET k == CHOOSE i \in 1 .. Len(str) :
                      str[i] = "/" /\ \A j \in 1 .. (i - 1) : str[j] # "/"
         IN <<SubSeq(str, 1, k - 1)>> \o Split(SubSeq(str, k + 1, Len(str)))

\* the decimal value of a string of digits
RECURSIVE Decimal(_)
Decimal(ds) ==
    IF ds = <<>> THEN 0
    ELSE 10 * Decimal(SubSeq(ds, 1, Len(ds) - 1)) + DigitValue(ds[Len(ds)])

\* int(s): an optional sign and at least one digit; anything else is a ValueError
IsInt(str) ==
    LET ds == IF str # <<>> /\ str[1] = "-" THEN Tail(str) ELSE str
    IN ds # <<>> /\ \A i \in 1 .. Len(ds) : ds[i] \in Digits

IntOf(str) ==
    IF str[1] = "-" THEN 0 - Decimal(Tail(str)) ELSE Decimal(str)

\* str.lower()
Lower(str) == [i \in 1 .. Len(str) |-> IF str[i] = "MINUTE" THEN "minute" ELSE str[i]]

\* period_seconds.get(period.lower(), 60.0)
PeriodSeconds(period) ==
    LET p == Lower(period)
    IN IF p = <<"second">> THEN 1
       ELSE IF p = <<"minute">> THEN 60
       ELSE IF p = <<"hour">> THEN 3600
       ELSE 60

Limit(count, seconds) == [raised |-> "none", max_requests |-> count, window_seconds |-> seconds]
Raised(error) == [raised |-> error, max_requests |-> 0, window_seconds |-> 0]

\* _parse_rate_limit(rate_limit): ValueError (the unpacking of other than two
\* pieces, int of a non-number) and AttributeError (no split on a non-string) give
\* the default
ParseRateLimit(rate_limit) ==
    IF rate_limit = NotAString THEN Limit(60, 60)
    ELSE LET parts == Split(rate_limit)
         IN IF Len(parts) # 2 THEN Limit(60, 60)
            ELSE IF ~IsInt(parts[1]) THEN Limit(60, 60)
            ELSE Limit(IntOf(parts[1]), PeriodSeconds(parts[2]))

\* the fields class Settings declares
SettingsFields ==
    {"google_api_key", "cache_ttl", "host", "port", "debug", "cors_origins", "rate_limit"}

\* GoogleSheetsClient.__init__: self.settings.google_rate_limit is read outside the
\* try of _parse_rate_limit
ClientLimits(rate_limit) ==
    IF "google_rate_limit" \in SettingsFields
    THEN ParseRateLimit(rate_limit)
    ELSE Raised("AttributeError")

\* ---------------------------------------------------- BackgroundPoller
\* The poller as spec.md section 4.5 describes it: idle or running; while running
\* it sleeps a poll interval, then runs a cycle.
NoSubscriptions == [id \in DocIds |-> {}]

PollerInit ==
    /\ poller = [state |-> "idle", pc |-> "sleep", wake |-> 0, last_activity |-> None,
                 subscriptions |-> NoSubscriptions, todo |-> {}]
    /\ cycles = <<>>

\* (mutant) a poller that never finds its clients gone
InactiveNever(last_activity, t) == FALSE

\* no client activity recorded within the inactivity timeout
Inactive(last_activity, t) ==
    last_activity = None \/ t - last_activity[1] > InactivityTimeout

\* the documents with a non-empty subscription set
Subscribed(subscriptions) == {id \in DocIds : subscriptions[id] # {}}

\* the subscribed tables of a document, as one upstream call returns them
PolledTables(id, gids) ==
    DocData(id, [g \in gids \cap DOMAIN upstream[id] |->
                    LET t == ParseSingleSheet(id, g, upstream[id][g].title, upstream[id][g].rows)
                    IN [title |-> t.title, headers |-> t.headers, data |-> t.data]])

\* start: idle -> running
PollerStart ==
    /\ poller.state = "idle"
    /\ poller' = [poller EXCEPT !.state = "running", !.pc = "sleep",
                                !.wake = now + PollInterval, !.todo = {}]
    /\ UNCHANGED <<now, cache, cycles>>

\* stop: the iteration is cancelled, running -> idle
PollerStop ==
    /\ poller.state = "running"
    /\ poller' = [poller EXCEPT !.state = "idle", !.pc = "sleep", !.todo = {}]
    /\ UNCHANGED <<now, cache, cycles>>

\* subscribe(documentId, tableId): adds to the set and refreshes the activity
PollerSubscribe(id, gid) ==
    /\ poller' = [poller EXCEPT !.subscriptions[id] = @ \cup {gid},
                                !.last_activity = Some(now)]
    /\ UNCHANGED <<now, cache, cycles>>

\* touch(): refreshes the activity
PollerTouch ==
    /\ poller' = [poller EXCEPT !.last_activity = Some(now)]
    /\ UNCHANGED <<now, cache, cycles>>

\* the sleep is over: the cycle is skipped, or begins with every subscribed document
PollerWake ==
    /\ poller.state = "running"
    /\ poller.pc = "sleep"
    /\ now >= poller.wake
    /\ Len(cycles) < MaxCycles
    /\ LET due == Subscribed(poller.subscriptions)
           skip == Inactive(poller.last_activity, now)
       IN /\ cycles' = Append(cycles, [time |-> now, last_activity |-> poller.last_activity,
                                       due |-> due, fetched |-> {}, stored |-> {},
                                       over |-> skip \/ due = {}])
          /\ poller' = IF skip \/ due = {}
                       THEN [poller EXCEPT !.wake = now + PollInterval]
                       ELSE [poller EXCEPT !.pc = "cycle", !.todo = due]
    /\ UNCHANGED <<now, cache>>

\* the cycle fetches one document's subscribed tables in one upstream call; on
\* success it writes them into the cache, on failure it goes on to the next
PollerFetch(id, ok) ==
    /\ poller.state = "running"
    /\ poller.pc = "cycle"
    /\ id \in poller.todo
    /\ LET todo == poller.todo \ {id}
           n == Len(cycles)
       IN /\ poller' = IF todo = {}
                       THEN [poller EXCEPT !.todo = {}, !.pc = "sleep",
                                           !.wake = now + PollInterval]
                       ELSE [poller EXCEPT !.todo = todo]
          /\ cycles' = [cycles EXCEPT ![n].fetched = @ \cup {id},
                                      ![n].stored = IF ok THEN @ \cup {id} ELSE @,
                                      ![n].over = (todo = {})]
    /\ cache' = IF ok
                THEN SetSpreadsheetMap(cache, id, PolledTables(id, poller.subscriptions[id]), now)
                ELSE cache
    /\ UNCHANGED now

\* ------------------------------------------- lifespan, periodic_cleanup
\* A file of the config directory: a config with its expiresAt, a file that
\* json.load or fromisoformat rejects, or JSON that is not an object (data.get
\* raises AttributeError, which cleanup_expired_configs does not catch).
ConfigNames == {1, 2}
ConfigPool ==
    { [kind |-> "config", expiresAt |-> 1],
      [kind |-> "config", expiresAt |-> MaxTime + 1],
      [kind |-> "invalid", expiresAt |-> 0],
      [kind |-> "not_object", expiresAt |-> 0] }

Removable(file, t) ==
    \/ file.kind = "invalid"
    \/ file.kind = "config" /\ file.expiresAt < t

\* cleanup_expired_configs: what it can leave on disk and whether it raised.  The
\* files come in the order of glob; a raising file ends the sweep where it stands.
CleanupExpiredConfigs(files, t) ==
    LET gone == {f \in DOMAIN files : Removable(files[f], t)}
        Without(S) == [f \in DOMAIN files \ S |-> files[f]]
    IN IF \E f \in DOMAIN files : files[f].kind = "not_object"
       THEN {[files |-> Without(S), raised |-> TRUE] : S \in SUBSET gone}
       ELSE {[files |-> Without(gone), raised |-> FALSE]}

LifeInit ==
    /\ lifespan = [phase |-> "init", task |-> "none", cancel |-> FALSE, wake |-> 0,
                   cycles |-> 0, raised |-> 0]
    /\ configs = EmptyMap

\* (mutant) a loop without its `except Exception`
CaughtNever(raised) == FALSE

\* try: ... except Exception as e: print(...)
Caught(raised) == raised

\* lifespan, before the yield: the initial cleanup, then create_task
LifespanStartup ==
    /\ lifespan.phase = "init"
    /\ \E out \in CleanupExpiredConfigs(configs, now) :
          /\ configs' = out.files
          /\ lifespan' = IF out.raised
                         THEN [lifespan EXCEPT !.phase = "failed"]
                         ELSE [lifespan EXCEPT !.phase = "serving", !.task = "ready"]
    /\ UNCHANGED now

\* periodic_cleanup: the task runs from its start, or from the end of its sleep, to
\* its next sleep; a cancel requested meanwhile is raised at the await instead
CleanupTaskStep ==
    /\ lifespan.task \in {"ready", "sleeping"}
    /\ IF lifespan.cancel
       THEN /\ lifespan' = [lifespan EXCEPT !.task = "cancelled"]
            /\ UNCHANGED configs
       ELSE /\ lifespan.task = "sleeping" => now >= lifespan.wake
            /\ lifespan.cycles < MaxCleanups
            /\ \E out \in CleanupExpiredConfigs(configs, now) :
                  /\ configs' = out.files
                  /\ lifespan' =
                        IF out.raised /\ ~Caught(out.raised)
                        THEN [lifespan EXCEPT !.task = "failed", !.cycles = @ + 1,
                                              !.raised = @ + 1]
                        ELSE [lifespan EXCEPT !.task = "sleeping",
                                              !.wake = now + CleanupInterval,
                                              !.cycles = @ + 1,
                                              !.raised = IF out.raised THEN @ + 1 ELSE @]
    /\ UNCHANGED now

\* lifespan, after the yield: cleanup_task.cancel(), then await cleanup_task
LifespanShutdown ==
    /\ lifespan.phase = "serving"
    /\ lifespan' = [lifespan EXCEPT !.phase = "closing",
                                    !.cancel = lifespan.task \in {"ready", "sleeping"}]
    /\ UNCHANGED <<now, configs>>

\* await cleanup_task returns, or raises, once the task is done
LifespanReturn ==
    /\ lifespan.phase = "closing"
    /\ lifespan.task \in {"cancelled", "failed"}
    /\ lifespan' = [lifespan EXCEPT !.phase = "stopped"]
    /\ UNCHANGED <<now, configs>>

\* a file appears in the config directory
ConfigWritten(name, file) ==
    /\ name \notin DOMAIN configs
    /\ configs' = Put(configs, name, file)
    /\ UNCHANGED <<now, lifespan>>

\* ------------------------------------------------------- pure functions
PureInit ==
    /\ content = EmptyMap
    /\ etags = <<>>
    /\ rawRows = <<>>
    /\ parsed = None
    /\ rateLimit = <<>>
    /\ limits = None

\* ------------------------------------------------------------------- time
Tick ==
    /\ now < MaxTime
    /\ now' = now + 1

\* ------------------------------------------ specification of the limiter
LimiterInit ==
    /\ now = 0
    /\ LimInit
    /\ apc = [a \in Acquirers |-> NoAcquire]
    /\ CacheInit
    /\ ClientInit
    /\ apiKey = TRUE
    /\ upstream = [id \in DocIds |-> UpstreamSmall]
    /\ ApiInit
    /\ PureInit
    /\ ThreadsInit
    /\ PollerInit
    /\ LifeInit

LimCall(a) ==
    /\ apc[a].pc = "idle"
    /\ Len(grants) + Cardinality({b \in Acquirers : apc[b].pc = "acquire"}) < MaxGrants
    /\ AcquireEnter(a)
    /\ apc' = [apc EXCEPT ![a] = [pc |-> "acquire", called |-> now]]
    /\ UNCHANGED <<now, limiterRest>>

LimRun(a) ==
    /\ apc[a].pc = "acquire"
    /\ apc' = [apc EXCEPT ![a].pc = IF GrantsNow(a) THEN "idle" ELSE "acquire"]
    /\ AcquireStep(a)
    /\ UNCHANGED <<now, limiterRest>>

LimTick ==
    /\ Tick
    /\ UNCHANGED <<limVars, apc, limiterRest>>

LimiterNext ==
    \/ \E a \in Acquirers : LimCall(a)
    \/ \E a \in Acquirers : LimRun(a)
    \/ LimTick

SpecLimiter == LimiterInit /\ [][LimiterNext]_vars

\* -------------------------------------------- specification of the cache
CacheSpecInit ==
    /\ now = 0
    /\ LimInit
    /\ apc = [a \in Acquirers |-> NoAcquire]
    /\ CacheInit
    /\ ClientInit
    /\ apiKey = TRUE
    /\ upstream = [id \in DocIds |-> UpstreamSmall]
    /\ ApiInit
    /\ PureInit
    /\ ThreadsInit
    /\ PollerInit
    /\ LifeInit

\* cache.set_spreadsheet(id, data)
CacheSet(id, sheets) ==
    LET data == DocData(id, sheets) IN
    /\ cache' = SetSpreadsheetMap(cache, id, data, now)
    /\ lastOp' = [op |-> "set", id |-> id, gid |-> 0, time |-> now, data |-> data,
                  result |-> Some(NewEntry(data, now)), before |-> cache]
    /\ lastSet' = Put(lastSet, id, cache'[id])

\* cache.get_spreadsheet(id)
CacheGetSpreadsheet(id) ==
    /\ cache' = GetSpreadsheetMap(cache, id, now)
    /\ lastOp' = [op |-> "get", id |-> id, gid |-> 0, time |-> now, data |-> EmptyMap,
                  result |-> GetSpreadsheet(cache, id, now), before |-> cache]
    /\ UNCHANGED lastSet

\* cache.get_sheet(id, gid)
CacheGetSheet(id, gid) ==
    /\ cache' = GetSpreadsheetMap(cache, id, now)
    /\ lastOp' = [op |-> "get_sheet", id |-> id, gid |-> gid, time |-> now,
                  data |-> EmptyMap, result |-> GetSheet(cache, id, gid, now),
                  before |-> cache]
    /\ UNCHANGED lastSet

\* cache.clear()
CacheClear ==
    /\ cache' = EmptyMap
    /\ lastOp' = [NoOp EXCEPT !.op = "clear", !.time = now, !.before = cache]
    /\ lastSet' = EmptyMap

\* cache.cleanup_expired()
CacheCleanup ==
    /\ cache' = CleanupExpiredMap(cache, now)
    /\ lastOp' = [NoOp EXCEPT !.op = "cleanup", !.time = now, !.before = cache]
    /\ UNCHANGED lastSet

CacheNext ==
    \/ \E id \in DocIds, sheets \in SheetsPool :
          CacheSet(id, sheets) /\ UNCHANGED <<now, cacheRest>>
    \/ \E id \in DocIds : CacheGetSpreadsheet(id) /\ UNCHANGED <<now, cacheRest>>
    \/ \E id \in DocIds, gid \in Gids :
          CacheGetSheet(id, gid) /\ UNCHANGED <<now, cacheRest>>
    \/ CacheClear /\ UNCHANGED <<now, cacheRest>>
    \/ CacheCleanup /\ UNCHANGED <<now, cacheRest>>
    \/ Tick /\ UNCHANGED <<cacheVars, cacheRest>>

SpecCache == CacheSpecInit /\ [][CacheNext]_vars

\* ------------------------------------------- specification of the client
ClientSpecInit ==
    /\ now = 0
    /\ LimInit
    /\ apc = [a \in Acquirers |-> NoAcquire]
    /\ CacheInit
    /\ ClientInit
    /\ apiKey \in BOOLEAN
    /\ upstream = [id \in DocIds |-> UpstreamSmall]
    /\ ApiInit
    /\ PureInit
    /\ ThreadsInit
    /\ PollerInit
    /\ LifeInit

TaskIds == 1 .. Len(tasks)

ClientNext ==
    \/ \E c \in Callers, key \in Keys : FetchSheet(c, key) /\ UNCHANGED clientRest
    \/ \E c \in Callers : Resume(c) /\ UNCHANGED clientRest
    \/ \E t \in TaskIds : TaskStart(t) /\ UNCHANGED clientRest
    \/ \E t \in TaskIds : TaskAcquire(t) /\ UNCHANGED clientRest
    \/ \E t \in TaskIds, o \in Outcomes : TaskMetadataResponse(t, o) /\ UNCHANGED clientRest
    \/ \E t \in TaskIds, o \in Outcomes : TaskDataResponse(t, o) /\ UNCHANGED clientRest
    \/ \E doc \in UpstreamPool : UpstreamEdit(1, doc) /\ UNCHANGED clientRest
    \/ Tick /\ UNCHANGED <<limVars, clientVars, clientRest>>

SpecClient == ClientSpecInit /\ [][ClientNext]_vars

\* ------------------------------------------ specification of the endpoint
\* The tables a direct store puts in the cache, and the tokens a request may carry.
StoredPool == {0 :> SheetPlayers, 0 :> SheetPlayers @@ 1 :> SheetEdited}
Tokens ==
    {None, Some(ComputeEtag([headers |-> <<>>, data |-> <<>>])),
     Some(ComputeEtag([headers |-> SheetPlayers.headers, data |-> SheetPlayers.data]))}

ApiSpecInit ==
    /\ now = 0
    /\ LimInit
    /\ apc = [a \in Acquirers |-> NoAcquire]
    /\ CacheInit
    /\ ClientInit
    /\ apiKey = TRUE
    /\ upstream = [id \in DocIds |-> UpstreamSmall]
    /\ ApiInit
    /\ PureInit
    /\ ThreadsInit
    /\ PollerInit
    /\ LifeInit

ApiNext ==
    \/ \E h \in Handlers, gid \in Gids, token \in Tokens :
           ApiRequest(h, 1, gid, token) /\ UNCHANGED apiRest
    \/ \E h \in Handlers : ApiAcquire(h) /\ UNCHANGED apiRest
    \/ \E h \in Handlers, o \in Outcomes : ApiMetadataResponse(h, o) /\ UNCHANGED apiRest
    \/ \E sheets \in StoredPool : ApiStore(1, sheets) /\ UNCHANGED apiRest
    \/ Tick /\ UNCHANGED <<limVars, cache, metadata, apiVars, apiRest>>

SpecApi == ApiSpecInit /\ [][ApiNext]_vars

\* ------------------------------- specification of the client without a key
\* settings.google_api_key is empty: callers of fetch_sheet, and requests to the
\* endpoint, which reaches upstream through fetch_spreadsheet.
NoKeyInit ==
    /\ now = 0
    /\ LimInit
    /\ apc = [a \in Acquirers |-> NoAcquire]
    /\ CacheInit
    /\ ClientInit
    /\ apiKey = FALSE
    /\ upstream = [id \in DocIds |-> UpstreamSmall]
    /\ ApiInit
    /\ PureInit
    /\ ThreadsInit
    /\ PollerInit
    /\ LifeInit

NoKeyNext ==
    \/ \E c \in Callers, key \in Keys : FetchSheet(c, key) /\ UNCHANGED clientRest
    \/ \E h \in Handlers, gid \in Gids : ApiRequest(h, 1, gid, None) /\ UNCHANGED apiRest
    \/ \E h \in Handlers : ApiAcquire(h) /\ UNCHANGED apiRest
    \/ \E h \in Handlers, o \in Outcomes : ApiMetadataResponse(h, o) /\ UNCHANGED apiRest
    \/ Tick /\ UNCHANGED <<limVars, cache, metadata, apiVars, apiRest>>

SpecNoKey == NoKeyInit /\ [][NoKeyNext]_vars

\* ----------------------------------------- specification of compute_etag
\* Rows of cells, lists of rows, and the tables {"headers", "data"} made of them.
CellRows == UNION {[1 .. n -> 0 .. MaxCell] : n \in 0 .. MaxCols}
RowLists == UNION {[1 .. n -> CellRows] : n \in 0 .. MaxRows}
Tables == {[headers |-> h, data |-> d] : h \in CellRows, d \in RowLists}

\* Everything but the variables of the pure functions.
pureRest == <<now, limVars, apc, cacheVars, clientVars, apiVars, threadVars,
    pollerVars, lifeVars>>

EtagInit ==
    /\ now = 0
    /\ LimInit
    /\ apc = [a \in Acquirers |-> NoAcquire]
    /\ CacheInit
    /\ ClientInit
    /\ apiKey = TRUE
    /\ upstream = [id \in DocIds |-> UpstreamSmall]
    /\ ApiInit
    /\ ThreadsInit
    /\ PollerInit
    /\ LifeInit
    /\ content \in Tables
    /\ etags = <<>>
    /\ rawRows = <<>>
    /\ parsed = None
    /\ rateLimit = <<>>
    /\ limits = None

\* compute_etag(content), once more
EtagCompute ==
    /\ Len(etags) < 2
    /\ etags' = Append(etags, ComputeEtag(content))
    /\ UNCHANGED <<content, rawRows, parsed, rateLimit, limits, pureRest>>

EtagNext == EtagCompute

SpecEtag == EtagInit /\ [][EtagNext]_vars

\* ---------------------------------- specification of _parse_single_sheet
\* The rowData of a values response: rows of cells, a cell with its formattedValue
\* or without one; a header row and up to MaxRows rows under it.
RawCells == {NoValue, 1}
RawRowsOf == UNION {[1 .. n -> RawCells] : n \in 0 .. MaxCols}
RawRowLists == UNION {[1 .. n -> RawRowsOf] : n \in 0 .. MaxRows + 1}

ParseInit ==
    /\ now = 0
    /\ LimInit
    /\ apc = [a \in Acquirers |-> NoAcquire]
    /\ CacheInit
    /\ ClientInit
    /\ apiKey = TRUE
    /\ upstream = [id \in DocIds |-> UpstreamSmall]
    /\ ApiInit
    /\ ThreadsInit
    /\ PollerInit
    /\ LifeInit
    /\ content = EmptyMap
    /\ etags = <<>>
    /\ rawRows \in RawRowLists
    /\ parsed = None
    /\ rateLimit = <<>>
    /\ limits = None

\* _parse_single_sheet(spreadsheet_id, gid, title, raw_data)
ParseSheet(id, gid, title) ==
    /\ parsed = None
    /\ parsed' = Some(ParseSingleSheet(id, gid, title, ExtractRows(rawRows)))
    /\ UNCHANGED <<content, etags, rawRows, rateLimit, limits, pureRest>>

ParseNext == \E id \in DocIds, gid \in Gids : ParseSheet(id, gid, 1)

SpecParse == ParseInit /\ [][ParseNext]_vars

\* ------------------------------------ specification of Metrics under threads
metricsRest == <<limVars, apc, cacheVars, clientVars, handlers, response, served, pureVars,
    pollerVars, lifeVars>>

Methods == {"to_dict", "reset"}

MetricsSpecInit ==
    /\ now = 0
    /\ LimInit
    /\ apc = [a \in Acquirers |-> NoAcquire]
    /\ CacheInit
    /\ ClientInit
    /\ apiKey = TRUE
    /\ upstream = [id \in DocIds |-> UpstreamSmall]
    /\ ApiInit
    /\ PureInit
    /\ ThreadsInit
    /\ PollerInit
    /\ LifeInit

MetricsTick == Tick /\ UNCHANGED <<metrics, threadVars>>

MetricsNext ==
    \/ \E th \in Threads, kind \in Kinds : ThreadRecord(th, kind, 1) /\ UNCHANGED metricsRest
    \/ \E th \in Threads, method \in Methods : ThreadCall(th, method) /\ UNCHANGED metricsRest
    \/ \E th \in Threads : ThreadLock(th) /\ UNCHANGED metricsRest
    \/ \E th \in Threads : ThreadLoad(th) /\ UNCHANGED metricsRest
    \/ \E th \in Threads : ThreadStore(th) /\ UNCHANGED metricsRest
    \/ \E th \in Threads : ThreadTotal(th) /\ UNCHANGED metricsRest
    \/ \E th \in Threads : ThreadExport(th) /\ UNCHANGED metricsRest
    \/ \E th \in Threads : ThreadClear(th) /\ UNCHANGED metricsRest
    \/ \E th \in Threads : ThreadUnlock(th) /\ UNCHANGED metricsRest
    \/ MetricsTick /\ UNCHANGED metricsRest

SpecMetrics == MetricsSpecInit /\ [][MetricsNext]_vars

\* ------------------------------------ specification of _parse_rate_limit
RateLimitStrings == UNION {[1 .. n -> TokenSet] : n \in 0 .. MaxTokens}

RateInit ==
    /\ now = 0
    /\ LimInit
    /\ apc = [a \in Acquirers |-> NoAcquire]
    /\ CacheInit
    /\ ClientInit
    /\ apiKey = TRUE
    /\ upstream = [id \in DocIds |-> UpstreamSmall]
    /\ ApiInit
    /\ ThreadsInit
    /\ PollerInit
    /\ LifeInit
    /\ content = EmptyMap
    /\ etags = <<>>
    /\ rawRows = <<>>
    /\ parsed = None
    /\ rateLimit \in RateLimitStrings \cup {NotAString}
    /\ limits = None

\* GoogleSheetsClient._parse_rate_limit(rate_limit), called directly
RateParse ==
    /\ limits = None
    /\ limits' = Some(ParseRateLimit(rateLimit))
    /\ UNCHANGED <<content, etags, rawRows, parsed, rateLimit, pureRest>>

\* GoogleSheetsClient() with the setting holding rate_limit
RateConstruct ==
    /\ limits = None
    /\ limits' = Some(ClientLimits(rateLimit))
    /\ UNCHANGED <<content, etags, rawRows, parsed, rateLimit, pureRest>>

RateNext == RateParse \/ RateConstruct

SpecRate == RateInit /\ [][RateNext]_vars

\* ---------------------------------------- specification of the poller
pollerRest == <<limVars, apc, lastOp, lastSet, clientVars, apiVars, pureVars, threadVars,
                lifeVars>>

PollerSpecInit ==
    /\ now = 0
    /\ LimInit
    /\ apc = [a \in Acquirers |-> NoAcquire]
    /\ CacheInit
    /\ ClientInit
    /\ apiKey = TRUE
    /\ upstream = [id \in DocIds |-> UpstreamSmall]
    /\ ApiInit
    /\ PureInit
    /\ ThreadsInit
    /\ PollerInit
    /\ LifeInit

PollerTick == Tick /\ UNCHANGED <<cache, pollerVars>>

PollerNext ==
    \/ PollerStart /\ UNCHANGED pollerRest
    \/ PollerStop /\ UNCHANGED pollerRest
    \/ \E id \in DocIds, gid \in Gids : PollerSubscribe(id, gid) /\ UNCHANGED pollerRest
    \/ PollerTouch /\ UNCHANGED pollerRest
    \/ PollerWake /\ UNCHANGED pollerRest
    \/ \E id \in DocIds, ok \in BOOLEAN : PollerFetch(id, ok) /\ UNCHANGED pollerRest
    \/ PollerTick /\ UNCHANGED pollerRest

SpecPoller == PollerSpecInit /\ [][PollerNext]_vars

\* ------------------- specification of overlapping fetches of the endpoint
\* The metadata GET in two steps: Google reads the spreadsheet and answers, and
\* later the answer reaches the handler. The spreadsheet is edited in between.
UpstreamRenamed == 0 :> [title |-> 2, rows |-> <<<<1>>, <<2>>>>]

\* Google serves the handler's GET: the answer holds the sheets as they are now.
OverlapServe(h) ==
    LET req == handlers[h] IN
    /\ req.pc = "get_meta"
    /\ handlers' = [handlers EXCEPT ![h] =
                       [pc |-> "reply", id |-> req.id, gid |-> req.gid,
                        if_none_match |-> req.if_none_match,
                        mapping |-> MappingOf(upstream[req.id])]]
    /\ UNCHANGED <<now, limVars, cache, metadata, response, metrics, served, upstream>>

\* The answer reaches the handler: the mapping is cached, fetch_spreadsheet returns,
\* the spreadsheet is stored and the response goes out (lines 291-301, 424-429,
\* 154-155, 168-202).
OverlapReply(h) ==
    LET req == handlers[h] IN
    /\ req.pc = "reply"
    /\ metadata' = CacheMetadata(metadata, req.id, req.mapping, now)
    /\ Fetched(h, req, req.mapping, metrics, cache)
    /\ UNCHANGED <<now, limVars, served, upstream>>

\* The owner of the spreadsheet renames its sheet.
OverlapEdit(id) ==
    /\ upstream[id] = UpstreamSmall
    /\ upstream' = [upstream EXCEPT ![id] = UpstreamRenamed]
    /\ UNCHANGED <<now, limVars, cache, metadata, apiVars>>

overlapRest == <<apc, lastOp, lastSet, apiKey, pending, tasks, calls, returned, pureVars,
                 threadVars, pollerVars, lifeVars>>

OverlapInit == ApiSpecInit

OverlapNext ==
    \/ \E h \in Handlers, gid \in Gids :
           ApiRequest(h, 1, gid, None) /\ UNCHANGED <<upstream, overlapRest>>
    \/ \E h \in Handlers : ApiAcquire(h) /\ UNCHANGED <<upstream, overlapRest>>
    \/ \E h \in Handlers : OverlapServe(h) /\ UNCHANGED overlapRest
    \/ \E h \in Handlers : OverlapReply(h) /\ UNCHANGED overlapRest
    \/ OverlapEdit(1) /\ UNCHANGED overlapRest
    \/ Tick /\ UNCHANGED <<limVars, cache, metadata, apiVars, upstream, overlapRest>>

SpecOverlap == OverlapInit /\ [][OverlapNext]_vars

\* ------------------------------- specification of the cache with aliasing
\* set_spreadsheet stores CacheEntry(data=data): the entry holds the caller's own
\* dict, and get_sheet hands out the sheet's own lists.  A caller that changes
\* what it holds changes the entry's data in place; etag and expires_at stay.
CallerMutates(id, sheets) ==
    /\ id \in DOMAIN cache
    /\ cache[id].data.sheets # sheets
    /\ cache' = [cache EXCEPT ![id].data.sheets = sheets]
    /\ UNCHANGED <<lastOp, lastSet>>

AliasNext ==
    \/ \E sheets \in SheetsPool : CacheSet(1, sheets) /\ UNCHANGED <<now, cacheRest>>
    \/ CacheGetSpreadsheet(1) /\ UNCHANGED <<now, cacheRest>>
    \/ \E gid \in Gids : CacheGetSheet(1, gid) /\ UNCHANGED <<now, cacheRest>>
    \/ \E sheets \in SheetsPool : CallerMutates(1, sheets) /\ UNCHANGED <<now, cacheRest>>
    \/ Tick /\ UNCHANGED <<cacheVars, cacheRest>>

SpecAlias == CacheSpecInit /\ [][AliasNext]_vars

\* --------------------------------------- specification of the lifespan
lifeRest == <<limVars, apc, cacheVars, clientVars, apiVars, pureVars, threadVars, pollerVars>>

LifeNext ==
    \/ LifespanStartup /\ UNCHANGED lifeRest
    \/ CleanupTaskStep /\ UNCHANGED lifeRest
    \/ LifespanShutdown /\ UNCHANGED lifeRest
    \/ LifespanReturn /\ UNCHANGED lifeRest
    \/ \E name \in ConfigNames, file \in ConfigPool :
          ConfigWritten(name, file) /\ UNCHANGED lifeRest
    \/ Tick /\ UNCHANGED <<lifeVars, lifeRest>>

SpecLifespan == CacheSpecInit /\ [][LifeNext]_vars

\* ------------------------- specification of the limiter as configured
\* RateLimiter(max_requests, window_seconds) with the pair _parse_rate_limit came
\* to: any count it lets through, 0 included, and any window.
ConfiguredLimits ==
    {Limit(count, seconds) : count \in 0 .. MaxConfigured, seconds \in 1 .. WindowSeconds}

ConfiguredInit ==
    /\ now = 0
    /\ LimInit
    /\ apc = [a \in Acquirers |-> NoAcquire]
    /\ CacheInit
    /\ ClientInit
    /\ apiKey = TRUE
    /\ upstream = [id \in DocIds |-> UpstreamSmall]
    /\ ApiInit
    /\ ThreadsInit
    /\ PollerInit
    /\ LifeInit
    /\ content = EmptyMap
    /\ etags = <<>>
    /\ rawRows = <<>>
    /\ parsed = None
    /\ rateLimit = <<>>
    /\ limits \in {Some(l) : l \in ConfiguredLimits}

RECURSIVE EvictWithin(_, _, _)
EvictWithin(ts, t, window_seconds) ==
    IF ts # <<>> /\ t - Head(ts) > window_seconds
    THEN EvictWithin(Tail(ts), t, window_seconds)
    ELSE ts

\* len(self._timestamps) >= self.max_requests, then self._timestamps[0] on an
\* empty deque
IndexError(ts, max_requests) == Len(ts) >= max_requests /\ ts = <<>>

\* acquire() of the configured limiter under its lock: to the IndexError, to the
\* sleep, or to the grant; and from the end of the sleep to the grant
AcquireConfigured(a) ==
    LET max_requests == limits[1].max_requests
        window_seconds == limits[1].window_seconds
        ts == EvictWithin(timestamps, now, window_seconds)
    IN
    /\ HoldsLock(a)
    /\ IF sleepUntil # NoSleep
       THEN /\ now >= sleepUntil
            /\ Grant(ts)
            /\ apc' = [apc EXCEPT ![a].pc = "idle"]
       ELSE IF IndexError(ts, max_requests)
       THEN /\ timestamps' = ts
            /\ lockQueue' = Tail(lockQueue)
            /\ apc' = [apc EXCEPT ![a].pc = "raised"]
            /\ UNCHANGED <<sleepUntil, grants>>
       ELSE IF Len(ts) >= max_requests /\ ts # <<>> /\ Head(ts) + window_seconds - now > 0
       THEN /\ timestamps' = ts
            /\ sleepUntil' = Head(ts) + window_seconds
            /\ UNCHANGED <<lockQueue, grants, apc>>
       ELSE /\ Grant(ts)
            /\ apc' = [apc EXCEPT ![a].pc = "idle"]

configuredRest == <<cacheVars, clientVars, apiVars, content, etags, rawRows, parsed, rateLimit,
                    limits, threadVars, pollerVars, lifeVars>>

ConfiguredCall(a) ==
    /\ apc[a].pc \in {"idle", "raised"}
    /\ Len(grants) + Cardinality({b \in Acquirers : apc[b].pc = "acquire"}) < MaxGrants
    /\ AcquireEnter(a)
    /\ apc' = [apc EXCEPT ![a] = [pc |-> "acquire", called |-> now]]
    /\ UNCHANGED <<now, configuredRest>>

ConfiguredRun(a) ==
    /\ apc[a].pc = "acquire"
    /\ AcquireConfigured(a)
    /\ UNCHANGED <<now, configuredRest>>

ConfiguredNext ==
    \/ \E a \in Acquirers : ConfiguredCall(a)
    \/ \E a \in Acquirers : ConfiguredRun(a)
    \/ Tick /\ UNCHANGED <<limVars, apc, configuredRest>>

SpecConfigured == ConfiguredInit /\ [][ConfiguredNext]_vars

\* ------------------------- specification of the client with cancellation
\* fetch_sheet awaits the shared task itself (`return await task`, `return await
\* self._pending_requests[key]`), unshielded: Task.cancel() on a caller suspended
\* there cancels the future it waits on, which is the shared task.  The task,
\* catching no CancelledError, unwinds: out of the lock's queue, or out of the lock
\* and its sleep, or out of its GET.
Dequeue(q, t) == SelectSeq(q, LAMBDA u : u # t)

CallerCancel(c) ==
    LET t == calls[c].task IN
    /\ calls[c].pc = "await"
    /\ Running(t)
    /\ calls' = [calls EXCEPT ![c].pc = "cancelled"]
    /\ tasks' = [tasks EXCEPT ![t] = Finish(t, Err("CANCELLED"))]
    /\ lockQueue' = Dequeue(lockQueue, t)
    /\ sleepUntil' = IF HoldsLock(t) THEN NoSleep ELSE sleepUntil
    /\ UNCHANGED <<now, timestamps, grants, apiKey, upstream, metadata, pending, returned>>

\* The cancelled caller is resumed with CancelledError; the creator runs its finally.
ResumeCancelled(c) ==
    LET t == calls[c].task IN
    /\ calls[c].pc = "cancelled"
    /\ Head(tasks[t].waiters) = c
    /\ tasks' = [tasks EXCEPT ![t].waiters = Tail(@)]
    /\ calls' = [calls EXCEPT ![c] = NoCall]
    /\ pending' = IF calls[c].creator THEN Unregister(pending, calls[c].key) ELSE pending
    /\ Return(c, t, calls[c].creator, Err("CANCELLED"))
    /\ UNCHANGED <<now, limVars, apiKey, upstream, metadata>>

CancelOutcomes == {"200", "500"}

CancelNext ==
    \/ \E c \in Callers : FetchSheet(c, <<1, 0>>) /\ UNCHANGED clientRest
    \/ \E c \in Callers : Resume(c) /\ UNCHANGED clientRest
    \/ \E c \in Callers : CallerCancel(c) /\ UNCHANGED clientRest
    \/ \E c \in Callers : ResumeCancelled(c) /\ UNCHANGED clientRest
    \/ \E t \in TaskIds : TaskStart(t) /\ UNCHANGED clientRest
    \/ \E t \in TaskIds : TaskAcquire(t) /\ UNCHANGED clientRest
    \/ \E t \in TaskIds, o \in CancelOutcomes :
          TaskMetadataResponse(t, o) /\ UNCHANGED clientRest
    \/ \E t \in TaskIds, o \in CancelOutcomes : TaskDataResponse(t, o) /\ UNCHANGED clientRest
    \/ Tick /\ UNCHANGED <<limVars, clientVars, clientRest>>

SpecCancel == CacheSpecInit /\ [][CancelNext]_vars

\* ---------------------------------------------------------------- claims

\* The number of grants whose grant time lies in (t - window_seconds, t].
GrantsInWindow(t) ==
    Cardinality({i \in 1 .. Len(grants) : grants[i] > t - WindowSeconds /\ grants[i] <= t})

\* C4: at every instant t, at most max_requests grants have their grant time in
\* the interval (t - window_seconds, t].
C4_AtMostMaxPerWindow ==
    \A t \in 0 .. MaxTime : GrantsInWindow(t) <= MaxRequests

\* The entry a get_spreadsheet found in the map before it ran.
GetFound == lastOp.op = "get" /\ lastOp.id \in DOMAIN lastOp.before
FoundEntry == lastOp.before[lastOp.id]

\* C6 (as claimed): a get returns the stored entry at every now < expiry and absent
\* at every now >= expiry, now == expiry included.
C6_AbsentFromExpiry ==
    GetFound =>
        IF lastOp.time < FoundEntry.expires_at
        THEN lastOp.result = Some(FoundEntry)
        ELSE lastOp.result = None

\* C6 (amended): a get returns the stored entry at every now <= expiry, now == expiry
\* included, and absent at every now > expiry.
C6_AbsentAfterExpiry ==
    GetFound =>
        /\ FoundEntry.expires_at = lastSet[lastOp.id].expires_at
        /\ IF lastOp.time <= FoundEntry.expires_at
           THEN lastOp.result = Some(FoundEntry)
           ELSE lastOp.result = None

C6_Witness ==
    /\ GetFound
    /\ lastOp.time = FoundEntry.expires_at
    /\ lastOp.result = Some(FoundEntry)

\* C7: set_spreadsheet(id, data) replaces the entry of id by one holding data, the
\* fingerprint of data and expiry now + TTL, returns that entry and leaves the other
\* ids alone; until that expiry and the next set or clear, get_spreadsheet(id)
\* returns exactly that entry.
C7_SetThenGet ==
    /\ lastOp.op = "set" =>
          /\ lastOp.id \in DOMAIN cache
          /\ cache[lastOp.id] = [data |-> lastOp.data, etag |-> ComputeEtag(lastOp.data),
                                 expires_at |-> lastOp.time + CacheTTL]
          /\ lastOp.result = Some(cache[lastOp.id])
          /\ DOMAIN cache \ {lastOp.id} = DOMAIN lastOp.before \ {lastOp.id}
          /\ \A k \in DOMAIN cache \ {lastOp.id} : cache[k] = lastOp.before[k]
    /\ \A id \in DOMAIN lastSet :
          now < lastSet[id].expires_at => id \in DOMAIN cache /\ cache[id] = lastSet[id]
    /\ (lastOp.op = "get" /\ lastOp.id \in DOMAIN lastSet
            /\ lastOp.time < lastSet[lastOp.id].expires_at) =>
          lastOp.result = Some(lastSet[lastOp.id])

C7_Witness ==
    /\ lastOp.op = "get"
    /\ lastOp.id \in DOMAIN lastSet
    /\ lastOp.time < lastSet[lastOp.id].expires_at
    /\ lastOp.result = Some(lastSet[lastOp.id])
    /\ lastOp.result[1].data.sheets # EmptyMap
    /\ \E k \in DOMAIN cache : k # lastOp.id

\* The calls of fetch_sheet that have not returned, and the producers not yet done.
Awaiting(c) == calls[c].pc = "await"
RunningFor(key) == {t \in TaskIds : Running(t) /\ tasks[t].key = key}

\* C1 as stated: any two fetch_sheet calls with the same key that are in progress at
\* the same time are served by one execution of _do_fetch_sheet.
C1_OverlapOneProducer ==
    \A c, d \in Callers :
        (Awaiting(c) /\ Awaiting(d) /\ calls[c].key = calls[d].key)
            => calls[c].task = calls[d].task

\* C1, amended: while an execution of _do_fetch_sheet for a key is running, no second
\* execution is started for that key, and a call that arrives joins the running one.
C1_OneProducerWhileRunning ==
    [][\A c \in Callers, key \in Keys :
          (FetchSheet(c, key) /\ apiKey /\ RunningFor(key) # {})
              => /\ tasks'[calls'[c].task].key = key
                 /\ calls'[c].task \in RunningFor(key)
                 /\ Len(tasks') = Len(tasks)
                 /\ Cardinality(RunningFor(key)) = 1]_vars

C1_Witness ==
    \E c, d \in Callers :
        /\ c # d
        /\ Awaiting(c) /\ Awaiting(d)
        /\ calls[c].task = calls[d].task
        /\ Running(calls[c].task)
        /\ calls[c].creator /\ ~calls[d].creator

\* C3: a caller that joined an execution returns what the caller that started it
\* returns, the same value or the same error.
C3_JoinerGetsCreatorOutcome ==
    \A c, d \in Callers :
        (/\ returned[c] # None /\ returned[d] # None
         /\ returned[c][1].task # 0
         /\ returned[c][1].task = returned[d][1].task)
            => /\ returned[c][1].outcome = returned[d][1].outcome
               /\ returned[c][1].outcome = tasks[returned[c][1].task].result[1]

C3_Witness ==
    \E c, d \in Callers :
        /\ returned[c] # None /\ returned[d] # None
        /\ returned[c][1].task # 0
        /\ returned[c][1].task = returned[d][1].task
        /\ returned[c][1].creator /\ ~returned[d][1].creator
        /\ ~returned[d][1].outcome.ok

\* The number of GETs the client has sent upstream.
RECURSIVE CallsUpTo(_)
CallsUpTo(n) == IF n = 0 THEN 0 ELSE tasks[n].nCalls + CallsUpTo(n - 1)
UpstreamCalls == CallsUpTo(Len(tasks))

\* C5: every GET sent upstream, for metadata or for data, has its own grant of
\* acquire() before it: the GETs sent are as many as the grants given.
C5_EveryCallGranted == UpstreamCalls = Len(grants)

C5_Witness ==
    \E t \in TaskIds : tasks[t].nCalls = 2 /\ tasks[t].pc = "done" /\ Len(grants) >= 2

\* The handlers whose metadata GET is in flight for a document.
Fetching(id) == {h \in Handlers : handlers[h].pc = "get_meta" /\ handlers[h].id = id}

\* C2: overlapping fetch_spreadsheet calls for one spreadsheet id share one upstream
\* fetch: at no time are two GETs for the same document in flight.
C2_OneFetchPerDocument == \A id \in DocIds : Cardinality(Fetching(id)) <= 1

\* The lines of a table as delimited rows.
CsvRows(headers, data) ==
    IF data = <<>> THEN CsvLine(headers)
    ELSE CsvLine(headers) \o <<10>> \o Join(<<10>>, [i \in 1 .. Len(data) |-> CsvLine(data[i])])

\* C8: on a cache hit the answer is 304 without a body exactly when the request's
\* If-None-Match equals the cached table's fingerprint; otherwise it is 200 with the
\* table's rows, header row first; either way the ETag is the cached table's fingerprint.
C8_HitAnswer ==
    (response # None /\ response[1].path = "hit") =>
        LET r == response[1]
            sheet == r.sheet[1]
            fingerprint == ComputeEtag([headers |-> sheet.headers, data |-> sheet.data])
        IN /\ (r.status = 304 /\ r.body = None) <=> (r.if_none_match = Some(fingerprint))
           /\ r.status # 304 => (r.status = 200 /\ r.body = Some(CsvRows(sheet.headers, sheet.data)))
           /\ r.etag = Some(fingerprint)
           /\ sheet.etag = fingerprint

C8_Witness ==
    /\ response # None
    /\ response[1].path = "hit"
    /\ response[1].status = 304
    /\ response[1].sheet[1].headers # <<>>

\* The table as upstream holds it: its first row the headers, the rest the rows.
UpstreamTable(id, gid) ==
    ParseSingleSheet(id, gid, upstream[id][gid].title, upstream[id][gid].rows)

\* C9: when a miss has been answered with the table, a get of the cache gives an entry
\* with the headers and the rows upstream holds, and a fingerprint that is not empty.
C9_MissCachesUpstreamTable ==
    [][(/\ metrics'.google_api_requests = metrics.google_api_requests + 1
        /\ response'[1].status \in {200, 304})
          => LET r == response'[1]
                 entry == GetSheet(cache', r.id, r.gid, now')
             IN /\ entry # None
                /\ entry[1].headers = UpstreamTable(r.id, r.gid).headers
                /\ entry[1].data = UpstreamTable(r.id, r.gid).data
                /\ entry[1].etag # <<>>]_vars

\* C10: a request that finds no valid cache entry is answered at once with 202
\* 'pending': no handler waits for the upstream fetch, and no miss gets another status.
C10_MissAnswersPending ==
    /\ \A h \in Handlers : handlers[h].pc = "idle"
    /\ (response # None /\ response[1].path = "miss") => response[1].status = 202

\* A handler's fetch fails in this step: the metadata GET ended without a mapping.
FetchFails(h) ==
    /\ handlers[h].pc = "get_meta"
    /\ handlers'[h].pc = "idle"
    /\ metrics'.errors = metrics.errors + 1

\* C11: a fetch that fails leaves the cache as it is, whether it holds an entry for
\* the document or not, and the request is answered with an error, without data.
C11_FailedFetchKeepsCache ==
    [][\A h \in Handlers :
          FetchFails(h) =>
              /\ cache' = cache
              /\ response'[1].handler = h
              /\ response'[1].status \in {403, 404, 500, 502}
              /\ response'[1].body = None
              /\ response'[1].etag = None]_vars

C11_Witness ==
    /\ response # None
    /\ response[1].path = "miss"
    /\ response[1].suspended
    /\ response[1].status = 502
    /\ metrics.errors = 1
    /\ response[1].id \in DOMAIN cache
    /\ ~IsExpired(cache[response[1].id], now)

\* C12: without an API key no fetch takes a grant of the limiter or sends a GET, and
\* every fetch ends in CONFIG_ERROR (status 500 at the endpoint).
C12_NoKeyFailsFast ==
    ~apiKey =>
        /\ grants = <<>>
        /\ \A h \in Handlers : handlers[h].pc # "get_meta"
        /\ \A c \in Callers :
              returned[c] # None => returned[c][1].outcome = Err("CONFIG_ERROR")
        /\ (response # None /\ response[1].path = "miss") => response[1].status = 500

\* What get_sheet gave for a table before the last set_spreadsheet, and gives after it.
SheetBefore(gid) == GetSheet(lastOp.before, lastOp.id, gid, lastOp.time)
SheetAfter(gid) == GetSheet(cache, lastOp.id, gid, lastOp.time)

\* A set_spreadsheet replaced a valid document and left the table's headers and rows.
TableKept(gid) ==
    /\ lastOp.op = "set"
    /\ SheetBefore(gid) # None
    /\ SheetAfter(gid) # None
    /\ SheetBefore(gid)[1].headers = SheetAfter(gid)[1].headers
    /\ SheetBefore(gid)[1].data = SheetAfter(gid)[1].data

\* C13: when a cached document is replaced by one whose table has the same headers and
\* rows, whatever became of its title and of the other tables, get_sheet gives the
\* table the same fingerprint, and a request carrying the old one is answered 304.
C13_TableFingerprintOwn ==
    \A gid \in Gids :
        TableKept(gid) =>
            /\ SheetAfter(gid)[1].etag = SheetBefore(gid)[1].etag
            /\ TableResponse(Some(SheetBefore(gid)[1].etag), SheetAfter(gid)[1].headers,
                             SheetAfter(gid)[1].data, SheetAfter(gid)[1].etag).status = 304

\* The title of the table changed and a sibling table appeared, and with them the
\* fingerprint of the document.
C13_Witness ==
    /\ TableKept(0)
    /\ lastOp.before[lastOp.id].data.sheets[0].title # cache[lastOp.id].data.sheets[0].title
    /\ DOMAIN lastOp.before[lastOp.id].data.sheets # DOMAIN cache[lastOp.id].data.sheets
    /\ lastOp.before[lastOp.id].etag # cache[lastOp.id].etag

ReturnsFor(c, key) ==
    \/ Resume(c) /\ calls[c].key = key
    \/ FetchSheet(c, key) /\ apiKey /\ returned'[c] # None

\* C15: calls for different keys never share an execution of _do_fetch_sheet: a
\* waiting caller waits for a task of its own key, so k keys have k tasks, a task
\* produces the sheet of its key, and a call returns the outcome of a task of its key.
C15_DistinctKeysApart ==
    /\ [](\A c \in Callers : Awaiting(c) => tasks[calls[c].task].key = calls[c].key)
    /\ [](\A c, d \in Callers :
            (Awaiting(c) /\ Awaiting(d) /\ calls[c].key # calls[d].key)
                => calls[c].task # calls[d].task)
    /\ [](\A t \in TaskIds :
            (tasks[t].result # None /\ tasks[t].result[1].ok)
                => /\ tasks[t].result[1].value[1].spreadsheetId = tasks[t].key[1]
                   /\ tasks[t].result[1].value[1].gid = tasks[t].key[2])
    /\ [][\A c \in Callers, key \in Keys :
            ReturnsFor(c, key) =>
                /\ tasks[returned'[c][1].task].key = key
                /\ returned'[c][1].outcome = tasks[returned'[c][1].task].result[1]]_vars

C15_Witness ==
    \E c, d \in Callers :
        /\ Awaiting(c) /\ Awaiting(d)
        /\ calls[c].key[1] = calls[d].key[1]
        /\ calls[c].key[2] # calls[d].key[2]
        /\ calls[c].task # calls[d].task
        /\ Running(calls[c].task) /\ Running(calls[d].task)

\* A call for the key has returned the outcome of an execution, and none is in progress.
ReturnedFor(key) ==
    \E d \in Callers :
        /\ returned[d] # None
        /\ returned[d][1].task # 0
        /\ tasks[returned[d][1].task].key = key
NoneInProgress(key) == \A d \in Callers : ~(Awaiting(d) /\ calls[d].key = key)

TypedError ==
    [o \in Outcomes \ {"200"} |->
        IF o = "404" THEN "NOT_FOUND"
        ELSE IF o = "403" THEN "NOT_PUBLISHED"
        ELSE IF o = "429" THEN "RATE_LIMITED"
        ELSE IF o = "RequestError" THEN "NETWORK"
        ELSE "API_ERROR"]

\* The task's gid is in the mapping _get_sheet_name works with in this step.
GidKnown(t, mapping) == tasks[t].key[2] \in DOMAIN mapping

\* C17: a GET that fails ends the fetch with the error type of its failure, for the
\* metadata and for the data alike; a gid the metadata does not hold ends it with
\* NOT_FOUND; a GET that succeeds raises nothing.
C17_TypedErrors ==
    [][\A t \in TaskIds :
          /\ \A o \in Outcomes \ {"200"} :
                (TaskMetadataResponse(t, o) \/ TaskDataResponse(t, o))
                    => tasks'[t].result = Some(Err(TypedError[o]))
          /\ TaskDataResponse(t, "200") => (tasks'[t].pc = "done" /\ tasks'[t].result[1].ok)
          /\ TaskMetadataResponse(t, "200") =>
                IF GidKnown(t, MappingOf(upstream[tasks[t].key[1]]))
                THEN tasks'[t].pc = "acq_data" /\ tasks'[t].result = None
                ELSE tasks'[t].result = Some(Err("NOT_FOUND"))
          /\ (TaskStart(t) /\ CachedMetadata(metadata, tasks[t].key[1], now) # None) =>
                IF GidKnown(t, CachedMetadata(metadata, tasks[t].key[1], now)[1])
                THEN tasks'[t].pc = "acq_data" /\ tasks'[t].result = None
                ELSE tasks'[t].result = Some(Err("NOT_FOUND"))]_vars

C17_Witness ==
    \E t, u \in TaskIds :
        /\ tasks[t].result = Some(Err("RATE_LIMITED"))
        /\ tasks[t].nCalls = 2
        /\ tasks[u].result = Some(Err("NOT_FOUND"))
        /\ tasks[u].nCalls = 0
        /\ tasks[u].key[2] \notin DOMAIN upstream[tasks[u].key[1]]

\* The error types of GoogleSheetsError, and the response category the claim gives each.
ErrorTypes ==
    {"NOT_FOUND", "NOT_PUBLISHED", "CONFIG_ERROR", "RATE_LIMITED", "NETWORK", "API_ERROR"}
Category ==
    [e \in ErrorTypes |->
        IF e = "NOT_FOUND" THEN 404
        ELSE IF e = "NOT_PUBLISHED" THEN 403
        ELSE IF e = "CONFIG_ERROR" THEN 500
        ELSE 502]

\* C18: the endpoint answers a GoogleSheetsError with the status of its kind, 404, 403,
\* 500 or 502, and a failed fetch is answered without a table and without an ETag.
C18_ErrorCategories ==
    /\ [](\A e \in ErrorTypes : HttpError(StatusOf(e)) =
                                    [status |-> Category[e], body |-> None, etag |-> None])
    /\ [][\A h \in Handlers, o \in Outcomes \ {"200"} :
            ApiMetadataResponse(h, o) =>
                /\ response'[1].handler = h
                /\ response'[1].status = Category[TypedError[o]]
                /\ response'[1].body = None
                /\ response'[1].etag = None]_vars

C18_Witness ==
    /\ response # None
    /\ response[1].path = "miss"
    /\ response[1].status = 403
    /\ response[1].body = None
    /\ metrics.errors = 2

\* The rows handed to the parser, as values, and the length of the longest of them.
InputRows == ExtractRows(rawRows)
Widest == CHOOSE w \in 0 .. MaxCols + 1 :
              /\ \A i \in 1 .. Len(InputRows) : Len(InputRows[i]) <= w
              /\ \E i \in 1 .. Len(InputRows) : Len(InputRows[i]) = w

\* The row is the input row, then empty strings up to the width.
PaddedFrom(row, input, width) ==
    /\ Len(row) = width
    /\ \A j \in 1 .. width : row[j] = IF j <= Len(input) THEN input[j] ELSE 0

\* C19: in a parsed table the header row is the first input row and the data rows are
\* the other input rows in order, each with its cells kept and empty strings added on
\* the right up to the length of the longest input row; none is cut.
C19_RowsNormalized ==
    parsed # None =>
        IF InputRows = <<>>
        THEN parsed[1].headers = <<>> /\ parsed[1].data = <<>>
        ELSE /\ PaddedFrom(parsed[1].headers, InputRows[1], Widest)
             /\ Len(parsed[1].data) = Len(InputRows) - 1
             /\ \A i \in 1 .. Len(parsed[1].data) :
                   PaddedFrom(parsed[1].data[i], InputRows[i + 1], Widest)

C19_Witness ==
    /\ parsed # None
    /\ Len(rawRows) = 3
    /\ Len(rawRows[1]) = 1
    /\ Len(rawRows[2]) = 0
    /\ Len(rawRows[3]) = 2
    /\ parsed[1].headers = <<1, 0>>
    /\ parsed[1].data[1] = <<0, 0>>

\* The record_* calls of a kind that have stored their count and not yet returned.
Stored(kind) == {th \in Threads : threads[th].kind = kind /\ threads[th].pc = "unlock"}

\* C20: under every interleaving of the threads, each counter is the number of
\* record_* calls of its kind that stored their count since the last reset (so the
\* number of completed calls once they have returned), and the total_requests of
\* every snapshot is its cache_hits plus its cache_misses.
C20_CountersExact ==
    /\ \A kind \in Kinds :
           CounterOf(metrics, kind) = completed[kind] + Cardinality(Stored(kind))
    /\ (\A th \in Threads : threads[th].pc = "idle") =>
           \A kind \in Kinds : CounterOf(metrics, kind) = completed[kind]
    /\ snapshot # None =>
           snapshot[1].total_requests = snapshot[1].cache_hits + snapshot[1].cache_misses

C20_Witness ==
    /\ \A th \in Threads : threads[th].pc = "idle"
    /\ completed["hit"] = 2
    /\ completed["miss"] = 1
    /\ metrics.cache_hits = 2
    /\ snapshot # None
    /\ snapshot[1].total_requests = 2
    /\ snapshot[1].cache_hits = 1

\* The thread completes the store of a record_* call of the kind in this step.
Stores(th, kind) ==
    /\ threads[th].pc = "store"
    /\ threads[th].kind = kind
    /\ threads'[th].pc = "unlock"

\* The thread runs the body of reset in this step.
Clears(th) == threads[th].pc = "clear" /\ threads'[th].pc = "unlock"

\* The buffer after the step is the buffer before it with the time of the step
\* added, its oldest entry dropped when it was full.
BufferStep(before, after) ==
    after = IF Len(before) = MaxTimestamps
            THEN Tail(before) \o <<now>>
            ELSE before \o <<now>>

\* C21: neither timestamp buffer ever holds more than the capacity; a record into a
\* full buffer drops its oldest timestamp and adds the new one, and the counter of
\* the call still goes up by one; no step but reset's lowers a counter.
C21_BuffersBounded ==
    /\ [](Len(metrics.request_times) <= MaxTimestamps)
    /\ [](Len(metrics.google_request_times) <= MaxTimestamps)
    /\ [][\A th \in Threads :
            /\ Stores(th, "hit") \/ Stores(th, "miss") =>
                   /\ BufferStep(metrics.request_times, metrics'.request_times)
                   /\ metrics'.cache_hits + metrics'.cache_misses
                          = metrics.cache_hits + metrics.cache_misses + 1
            /\ Stores(th, "google") =>
                   /\ BufferStep(metrics.google_request_times, metrics'.google_request_times)
                   /\ metrics'.google_api_requests = metrics.google_api_requests + 1
            /\ (\A other \in Threads : ~Clears(other)) =>
                   \A kind \in Kinds : CounterOf(metrics', kind) >= CounterOf(metrics, kind)]_vars

C21_Witness ==
    /\ Len(metrics.request_times) = MaxTimestamps
    /\ metrics.cache_hits + metrics.cache_misses = MaxTimestamps + 1
    /\ metrics.request_times[1] > 0
    /\ \A th \in Threads : threads[th].pc = "idle"

\* The setting is 'N/unit' with N a number and unit second, minute or hour.
UnitSeconds(unit) == IF unit = "second" THEN 1 ELSE IF unit = "minute" THEN 60 ELSE 3600
WellFormed(str) ==
    /\ str # NotAString
    /\ Len(str) >= 3
    /\ str[Len(str) - 1] = "/"
    /\ str[Len(str)] \in {"second", "minute", "hour"}
    /\ \A i \in 1 .. (Len(str) - 2) : str[i] \in Digits

\* C22: parsing the rate limit never fails; 'N/unit' gives N and the unit's seconds,
\* every other value gives 60 requests per 60 seconds, and the result always has at
\* least one request and a positive window.
C22_ParseNeverFails ==
    limits # None =>
        /\ limits[1].raised = "none"
        /\ IF WellFormed(rateLimit)
           THEN /\ limits[1].max_requests = Decimal(SubSeq(rateLimit, 1, Len(rateLimit) - 2))
                /\ limits[1].window_seconds = UnitSeconds(rateLimit[Len(rateLimit)])
           ELSE limits[1].max_requests = 60 /\ limits[1].window_seconds = 60
        /\ limits[1].max_requests >= 1
        /\ limits[1].window_seconds > 0

\* The cycle found client activity recorded within the inactivity timeout.
RecentActivity(c) ==
    c.last_activity # None /\ c.time - c.last_activity[1] <= InactivityTimeout

\* C23: a poll cycle of the running poller that finds no client activity within the
\* inactivity timeout makes no upstream call; one that finds recent activity has, when
\* it is over, fetched every document that had a non-empty subscription set.
C23_PollOnlyWhenActive ==
    \A i \in 1 .. Len(cycles) :
        /\ ~RecentActivity(cycles[i]) => cycles[i].fetched = {} /\ cycles[i].over
        /\ RecentActivity(cycles[i]) /\ cycles[i].over => cycles[i].fetched = cycles[i].due

C23_Witness ==
    /\ Len(cycles) = 2
    /\ ~RecentActivity(cycles[1])
    /\ cycles[1].due # {}
    /\ RecentActivity(cycles[2])
    /\ cycles[2].over
    /\ cycles[2].fetched = DocIds
    /\ cycles[2].stored = {1}

\* The call begins in this step and has its answer in the same step.
AnsweredAtOnce(c) ==
    /\ calls[c].pc = "idle"
    /\ returned'[c] # None
    /\ returned'[c] # returned[c]

\* C24: a fetch_sheet call that starts after an execution of _do_fetch_sheet has
\* finished never receives that execution's value or error, and the registry holds
\* no finished execution when a call looks its key up.
C24_NoFinishedExecutionJoined ==
    [][\A c \in Callers : \A t \in 1 .. Len(tasks) :
           (AnsweredAtOnce(c) /\ ~Running(t)) => returned'[c][1].task # t]_vars

\* C25: no lock is held across a suspension point: acquire() does not hold the
\* limiter's lock while it sleeps for a slot of the window.
C25_NoLockAcrossSleep == sleepUntil # NoSleep => lockQueue = <<>>

\* C26: a grant is appended only when fewer than max_requests timestamps remain after
\* eviction, so the queue and current_count never exceed max_requests.
C26_QueueWithinMax ==
    /\ Len(timestamps) <= MaxRequests
    /\ Len(Evict(timestamps, now)) <= MaxRequests

\* Every caller has called acquire(), and every call so far was made at time 0, on
\* the empty limiter: the calls were issued back to back.
BackToBack == \A a \in Acquirers : apc[a].called = 0

\* C27 as stated, for max_requests grants per window: twice max_requests calls of
\* acquire() issued back to back on an empty limiter are not all granted before two
\* windows have passed since the first call.
C27_TwoWindowWaits ==
    (BackToBack /\ Len(grants) >= 2 * MaxRequests) =>
        grants[2 * MaxRequests] >= 2 * WindowSeconds

\* C27, amended: they are not all granted before one window has passed since the
\* first grant: the call after the first max_requests waits for the window of the
\* first grant to end.
C27_OneWindowWait ==
    Len(grants) >= 2 * MaxRequests =>
        grants[2 * MaxRequests] >= grants[1] + WindowSeconds

C27_Witness ==
    /\ BackToBack
    /\ Len(grants) = 2 * MaxRequests
    /\ grants[1] = 0
    /\ grants[2 * MaxRequests] = WindowSeconds
    /\ \A a \in Acquirers : apc[a].pc = "idle"

\* The calls of fetch_sheet in progress for a key.
InProgress(key) == {c \in Callers : calls[c].pc = "await" /\ calls[c].key = key}

\* C28: once every fetch_sheet call for a key has returned, after success or after
\* failure, the registry has no entry for the key; with no call in progress the
\* registry is empty.
C28_RegistryCleaned ==
    /\ \A key \in Keys : InProgress(key) = {} => key \notin DOMAIN pending
    /\ (\A c \in Callers : calls[c].pc = "idle") => pending = EmptyMap

C28_Witness ==
    /\ \A c \in Callers : calls[c].pc = "idle"
    /\ pending = EmptyMap
    /\ \E t, u \in 1 .. Len(tasks) :
           /\ tasks[t].pc = "done" /\ ~tasks[t].result[1].ok
           /\ tasks[u].pc = "done" /\ tasks[u].result[1].ok
    /\ \A c \in Callers : returned[c] # None /\ returned[c][1].task # 0

\* The title of the sheet in the cached spreadsheet: upstream's title grows with
\* each edit, so a smaller title is an older reading of upstream.
TitleIn(c, id) == c[id].data.sheets[0].title

\* C29: the cache entry is that of the most recent successful fetch: when fetches
\* of one document overlap, no store puts an older reading of upstream over a
\* newer one.
C29_NewestFetchCached ==
    [][\A id \in (DOMAIN cache) \cap (DOMAIN cache') : TitleIn(cache', id) >= TitleIn(cache, id)]_vars

\* The last operation was get_spreadsheet, and the entry it found had expired.
LastGet == lastOp.op = "get"
FoundExpired ==
    /\ lastOp.id \in DOMAIN lastOp.before
    /\ lastOp.time > lastOp.before[lastOp.id].expires_at

\* C30: a get of an expired entry removes that entry from the map and returns
\* absent; a get of a missing or an unexpired entry leaves the map as it was; a get
\* never changes the entry of another key.
C30_GetFrame ==
    LastGet =>
        /\ FoundExpired => lastOp.id \notin DOMAIN cache /\ lastOp.result = None
        /\ ~FoundExpired => cache = lastOp.before
        /\ DOMAIN cache \ {lastOp.id} = DOMAIN lastOp.before \ {lastOp.id}
        /\ \A k \in DOMAIN cache \ {lastOp.id} : cache[k] = lastOp.before[k]

C30_Witness ==
    /\ LastGet
    /\ FoundExpired
    /\ lastOp.id \notin DOMAIN cache
    /\ \E k \in DOMAIN cache : k # lastOp.id /\ lastOp.time > cache[k].expires_at

\* The last operation was cleanup_expired; the ids a get at that instant would
\* have found unexpired in the map as it was.
LastCleanup == lastOp.op = "cleanup"
Unexpired == {k \in DOMAIN lastOp.before : ~(lastOp.time > lastOp.before[k].expires_at)}

\* C31: cleanup_expired removes the entries a get at the same instant would treat as
\* expired and no other: the size afterwards is the number of unexpired entries,
\* and a get still returns each of them unchanged.
C31_CleanupExact ==
    LastCleanup =>
        /\ DOMAIN cache = Unexpired
        /\ Cardinality(DOMAIN cache) = Cardinality(Unexpired)
        /\ \A k \in DOMAIN lastOp.before :
               k \in DOMAIN cache <=> GetSpreadsheet(lastOp.before, k, lastOp.time) # None
        /\ \A k \in Unexpired :
               /\ GetSpreadsheet(cache, k, lastOp.time) = Some(lastOp.before[k])
               /\ GetSpreadsheetMap(cache, k, lastOp.time) = cache

C31_Witness ==
    /\ LastCleanup
    /\ \E k \in DOMAIN cache : cache[k].expires_at = lastOp.time
    /\ \E k \in DOMAIN lastOp.before : k \notin DOMAIN cache

\* The fingerprint a table of the entry created by the last set had at creation.
CreatedSheetEtag(id, gid) ==
    LET sheet == lastSet[id].data.sheets[gid] IN
    ComputeEtag([headers |-> sheet.headers, data |-> sheet.data])

\* C32: between two sets on a document, every get that returns the document's entry
\* or one of its tables returns the fingerprint the entry had at creation, whatever
\* callers do with the data they passed to set or received from a get.
C32_FingerprintFixed ==
    /\ (lastOp.op = "get" /\ lastOp.result # None) =>
           lastOp.result[1].etag = lastSet[lastOp.id].etag
    /\ (/\ lastOp.op = "get_sheet"
        /\ lastOp.result # None
        /\ lastOp.gid \in DOMAIN lastSet[lastOp.id].data.sheets) =>
           lastOp.result[1].etag = CreatedSheetEtag(lastOp.id, lastOp.gid)

\* The timestamps of a buffer newer than the cutoff, counted over the whole buffer.
NewerThan(times, cutoff) ==
    Cardinality({i \in 1 .. Len(times) : times[i] > cutoff})
NonDecreasing(times) ==
    \A i \in 1 .. Len(times) : \A j \in i .. Len(times) :
        times[i] <= times[j]
Exports(th) == threads[th].pc = "export" /\ threads'[th].pc = "unlock"

\* C33: both buffers hold their timestamps in non-decreasing order, and each
\* requests-per-minute figure of a snapshot is the number of timestamps in its
\* buffer newer than now minus the window, as a scan of the whole buffer counts them.
C33_RpmIsWindowCount ==
    /\ [](/\ NonDecreasing(metrics.request_times)
          /\ NonDecreasing(metrics.google_request_times))
    /\ [][\A th \in Threads : Exports(th) =>
              /\ snapshot'[1].server_rpm = NewerThan(metrics.request_times, now - RpmWindow)
              /\ snapshot'[1].google_rpm =
                     NewerThan(metrics.google_request_times, now - RpmWindow)]_vars

\* a snapshot just taken, the lock still held, that left an old timestamp out
C33_Witness ==
    \E th \in Threads :
        /\ threads[th].pc = "unlock"
        /\ threads[th].kind = "to_dict"
        /\ mlock = th
        /\ snapshot # None
        /\ snapshot[1].server_rpm = 1
        /\ Len(metrics.request_times) = 2
        /\ metrics.request_times[1] < metrics.request_times[2]

\* C34: shutdown returns only after the cancelled cleanup task has unwound, the task
\* runs no cycle once the cancel is requested, and a cycle that raises leaves the
\* loop running: the task ends by the cancel of the shutdown and in no other way.
C34_ShutdownJoinsTask ==
    /\ [](lifespan.phase = "stopped" => lifespan.task = "cancelled")
    /\ [](lifespan.task \in {"cancelled", "failed"} => lifespan.cancel)
    /\ [][lifespan.cancel => lifespan'.cycles = lifespan.cycles]_vars
    /\ [][lifespan'.raised > lifespan.raised => lifespan'.task = "sleeping"]_vars

\* a shutdown completed after a cycle that raised and a later cycle
C34_Witness ==
    /\ lifespan.phase = "stopped"
    /\ lifespan.raised >= 1
    /\ lifespan.cycles > lifespan.raised

\* A step that sends a response, and the table the cache holds for a request.
Sends == response' # response /\ response' # None
TableFor(c, r) == GetSheet(c, r.id, r.gid, now)
EmptyTableEtag == ComputeEtag([headers |-> <<>>, data |-> <<>>])

\* C35: the token of every full 200 response, on the miss path as on the hit path, is
\* the fingerprint the cache gives for that table of the entry that served it; and a
\* request that arrives with the fingerprint the cache gives for its table, the
\* entry being unexpired, is answered 'not modified'.  So a client resending the
\* token of a 200 gets 304 for as long as that entry is unchanged and unexpired.
C35_TokenRevalidates ==
    /\ [][(Sends /\ response'[1].status = 200) =>
              /\ TableFor(cache', response'[1]) # None
              /\ response'[1].etag = Some(TableFor(cache', response'[1])[1].etag)]_vars
    /\ [][(/\ Sends
           /\ ~response'[1].suspended
           /\ TableFor(cache, response'[1]) # None
           /\ response'[1].if_none_match = Some(TableFor(cache, response'[1])[1].etag)) =>
              /\ response'[1].status = 304
              /\ response'[1].body = None
              /\ response'[1].etag = response'[1].if_none_match
              /\ cache' = cache]_vars

\* a 304 from the cache for the token that only a 200 of the miss path hands out
C35_Witness ==
    /\ response # None
    /\ response[1].status = 304
    /\ response[1].path = "hit"
    /\ response[1].if_none_match = Some(EmptyTableEtag)
    /\ metrics.cache_misses >= 1
    /\ metrics.google_api_requests >= 1

\* Every handler has answered; the upstream network calls issued so far: the
\* endpoint sends one GET after each grant of the limiter.
AllAnswered == \A h \in Handlers : handlers[h].pc = "idle"
MetadataGets == Len(grants)

\* C36: once every request has completed, google_api_requests is the number of
\* upstream network calls issued, failed ones included, and fetches answered from
\* the metadata cache excluded.
C36_CounterCountsUpstreamCalls ==
    AllAnswered => metrics.google_api_requests = MetadataGets

\* C37: a response of the hit path, 200 or 304, comes in the step of the request,
\* with no grant and no call upstream, the cache map, the registry of fetches in
\* flight and the metadata cache as they were; of the metrics only cache_hits, by
\* one, and the served-request buffer, by one timestamp, change.
C37_HitTouchesNothing ==
    [][(Sends /\ response'[1].path = "hit") =>
          /\ response'[1].status \in {200, 304}
          /\ ~response'[1].suspended
          /\ UNCHANGED <<limVars, cache, metadata, pending, tasks, handlers>>
          /\ metrics' = [metrics EXCEPT !.cache_hits = @ + 1,
                                        !.request_times = DequeAppend(@, now)]]_vars

\* a full 200 from the cache, after a fetch that took a grant
C37_Witness ==
    /\ response # None
    /\ response[1].path = "hit"
    /\ response[1].status = 200
    /\ metrics.cache_hits >= 1
    /\ Len(grants) >= 1

\* The callers inside acquire(), and a step that grants.
Waiting == {a \in Acquirers : apc[a].pc = "acquire"}
Granted(a) == apc[a].pc = "acquire" /\ apc'[a].pc = "idle"

\* C38: whatever max_requests and window the limiter is configured with, no call
\* of acquire() ends otherwise than by its grant, and the grants go to the waiting
\* callers in the order of their calls.
C38_EveryAcquireGranted ==
    /\ [](\A a \in Acquirers : apc[a].pc # "raised")
    /\ [][\A a \in Acquirers : Granted(a) =>
              /\ grants' = Append(grants, now)
              /\ \A b \in Waiting : apc[a].called <= apc[b].called]_vars

\* The document of a task has its mapping cached and unexpired; the task leaves its
\* first step; its metadata GET ends in the task's failure.
MappingCached(t) ==
    /\ tasks[t].key[1] \in DOMAIN metadata
    /\ ~(now > metadata[tasks[t].key[1]].expires_at)
Starts(t) == t \in DOMAIN tasks /\ tasks[t].pc = "start" /\ tasks'[t].pc # "start"
LookupFails(t) == t \in DOMAIN tasks /\ tasks[t].pc = "get_meta" /\ tasks'[t].pc = "done"

\* C40: while a document's mapping is cached and unexpired, a fetch takes the title
\* from it without grant or call upstream, and fails NOT_FOUND at once for a gid the
\* mapping lacks; a metadata GET that fails leaves the metadata cache as it was (a
\* lookup that ends NOT_FOUND after a 200 has cached a mapping without that gid).
C40_MetadataCachedNotFailures ==
    /\ [][\A t \in DOMAIN tasks : (Starts(t) /\ MappingCached(t)) =>
              LET mapping == metadata[tasks[t].key[1]].mapping
                  gid == tasks[t].key[2]
              IN /\ metadata' = metadata
                 /\ grants' = grants
                 /\ tasks'[t].nCalls = 0
                 /\ IF gid \in DOMAIN mapping
                    THEN tasks'[t].pc = "acq_data" /\ tasks'[t].name = mapping[gid]
                    ELSE /\ tasks'[t].pc = "done"
                         /\ tasks'[t].result = Some(Err("NOT_FOUND"))
                         /\ UNCHANGED limVars]_vars
    /\ [][\A t \in DOMAIN tasks : LookupFails(t) =>
              \/ metadata' = metadata
              \/ /\ tasks'[t].result = Some(Err("NOT_FOUND"))
                 /\ tasks[t].key[1] \in DOMAIN metadata'
                 /\ tasks[t].key[2] \notin DOMAIN metadata'[tasks[t].key[1]].mapping
                 /\ metadata'[tasks[t].key[1]].expires_at = now + MetadataTTL]_vars

\* a fetch failed NOT_FOUND from the cached mapping, with no call of its own
C40_Witness ==
    \E t \in DOMAIN tasks :
        /\ tasks[t].pc = "done"
        /\ tasks[t].result = Some(Err("NOT_FOUND"))
        /\ tasks[t].nCalls = 0
        /\ tasks[t].key[1] \in DOMAIN metadata
        /\ tasks[t].key[2] \notin DOMAIN metadata[tasks[t].key[1]].mapping

\* A caller waiting on a fetch is cancelled; a caller waiting on a fetch returns.
Cancelled(c) == calls[c].pc = "await" /\ calls'[c].pc = "cancelled"
Returns(c) == calls[c].pc = "await" /\ calls'[c].pc = "idle"

\* C39: cancelling a caller that waits on a shared fetch leaves the fetch running,
\* and every caller that was not cancelled itself receives the value or the error
\* of the fetch, never a cancellation.
C39_CancelOnlyTheCaller ==
    /\ [][\A c \in Callers : Cancelled(c) =>
              tasks'[calls[c].task].pc = tasks[calls[c].task].pc]_vars
    /\ [][\A c \in Callers : Returns(c) =>
              /\ returned'[c] # None
              /\ returned'[c][1].outcome.error # "CANCELLED"]_vars

====
